---------------------------- MODULE Spec2Model ----------------------------
(***************************************************************************)
(* Triple-stage validation engine of the leads system                      *)
(* (src/src/validation/comprehensive_validator.py).                        *)
(*                                                                         *)
(* Python values are modelled as tagged records, strings as sequences of   *)
(* one-character strings, dicts as functions from the keys that are        *)
(* present.  Python floats are modelled as exact rationals [num, den] in   *)
(* lowest terms: the scoring arithmetic is exact here, rounding error of   *)
(* the IEEE doubles is outside the model.                                  *)
(***************************************************************************)
EXTENDS Integers, Sequences, FiniteSets, TLC

(***************************************************************************)
(* Bounds of the model.                                                    *)
(***************************************************************************)
\* largest list handed to validate_batch
MaxBatch == 3

(***************************************************************************)
(* Exact rationals standing for the floats of the program.                 *)
(***************************************************************************)
Abs(n) == IF n < 0 THEN -n ELSE n

RECURSIVE GCD(_, _)
GCD(a, b) == IF b = 0 THEN a ELSE GCD(b, a % b)

\* n / d in lowest terms with a positive denominator (d # 0)
Rat(n, d) ==
    LET g == GCD(Abs(n), Abs(d))
        s == IF d < 0 THEN -1 ELSE 1
    IN  [num |-> (s * n) \div g, den |-> (s * d) \div g]

Zero == [num |-> 0, den |-> 1]
One == [num |-> 1, den |-> 1]

RatAdd(a, b) == Rat(a.num * b.den + b.num * a.den, a.den * b.den)
RatMul(a, b) == Rat(a.num * b.num, a.den * b.den)
RatLt(a, b) == a.num * b.den < b.num * a.den
RatLeq(a, b) == a.num * b.den <= b.num * a.den
\* max() left out: the second argument as it is
RatMax_Second(a, b) == b
RatMax(a, b) == IF RatLt(a, b) THEN b ELSE a
RatMin(a, b) == IF RatLt(b, a) THEN b ELSE a

(***************************************************************************)
(* Python values.                                                          *)
(***************************************************************************)
PyNone == [t |-> "none", s |-> <<>>, n |-> 0]
PyStr(s) == [t |-> "str", s |-> s, n |-> 0]
PyInt(n) == [t |-> "int", s |-> <<>>, n |-> n]
\* [s]: a list whose one element is the string s
PyStrList(s) == [t |-> "list", s |-> s, n |-> 0]

\* bool(v)
Truthy(v) ==
    CASE v.t = "none" -> FALSE
      [] v.t = "str" -> v.s # <<>>
      [] v.t = "int" -> v.n # 0
      [] v.t = "list" -> TRUE

\* v == ''
IsEmptyStr(v) == v.t = "str" /\ v.s = <<>>

\* isinstance(v, (int, float))
IsNumber(v) == v.t = "int"

\* a dict, given as the function from its keys to its values
PyDict(f) == [kind |-> "dict", d |-> f, elems |-> <<>>]
\* a value that is neither a dict nor a list (a string, a number, None)
PyScalar == [kind |-> "scalar", d |-> <<>>, elems |-> <<>>]
\* a list of items
PyList(xs) == [kind |-> "list", d |-> <<>>, elems |-> xs]

\* items = data if isinstance(data, list) else [data]
ItemsOf(data) == IF data.kind = "list" THEN data.elems ELSE <<data>>

\* item.get(key, default)
DictGet(item, key, default) ==
    IF key \in DOMAIN item.d THEN item.d[key] ELSE default

(***************************************************************************)
(* Sequence helpers.                                                       *)
(***************************************************************************)
RECURSIVE Concat(_)
Concat(xss) == IF xss = <<>> THEN <<>> ELSE Head(xss) \o Concat(Tail(xss))

(***************************************************************************)
(* Statuses and step results.                                              *)
(***************************************************************************)
PASSED == "passed"
FAILED == "failed"
WARNING == "warning"
PENDING == "pending"

\* an unset Optional[ValidationResult]
NoResult == [step |-> "None"]

ValidationResult(step, status, score, confidence, errors, details) ==
    [step |-> step, status |-> status, score |-> score,
     confidence |-> confidence, errors |-> errors, details |-> details]

(***************************************************************************)
(* Step 1: SchemaValidator.                                                *)
(***************************************************************************)
SCHEMAS ==
    [lead |-> <<"id", "source_url", "scraped_at">>,
     property |-> <<"id", "address", "property_type">>,
     intelligence |-> <<"id", "type", "source", "timestamp">>,
     repository |-> <<"name", "full_name">>]

\* SchemaRequired without the fallback: no required field for a data type
\* that is not in SCHEMAS
SchemaRequired_NoFallback(data_type) ==
    IF data_type \in DOMAIN SCHEMAS THEN SCHEMAS[data_type] ELSE <<>>

\* self.SCHEMAS.get(data_type, self.SCHEMAS['lead'])['required']
SchemaRequired(data_type) ==
    IF data_type \in DOMAIN SCHEMAS THEN SCHEMAS[data_type] ELSE SCHEMAS["lead"]

\* FieldErrors without the test for None and '': presence only
FieldErrors_PresenceOnly(item, path, fld) ==
    IF fld \notin DOMAIN item.d
    THEN <<[path |-> path, kind |-> "missing", field |-> fld]>>
    ELSE <<>>

\* the error, if any, that one required field adds for a dict item
FieldErrors(item, path, fld) ==
    IF fld \notin DOMAIN item.d
    THEN <<[path |-> path, kind |-> "missing", field |-> fld]>>
    ELSE IF item.d[fld].t = "none" \/ IsEmptyStr(item.d[fld])
         THEN <<[path |-> path, kind |-> "empty", field |-> fld]>>
         ELSE <<>>

\* validate_item without the isinstance test: a non-dict item gets no error
validate_item_SkipNonDict(item, path, required) ==
    IF item.kind # "dict"
    THEN <<>>
    ELSE Concat([k \in DOMAIN required |-> FieldErrors(item, path, required[k])])

validate_item(item, path, required) ==
    IF item.kind # "dict"
    THEN <<[path |-> path, kind |-> "type", field |-> ""]>>
    ELSE Concat([k \in DOMAIN required |-> FieldErrors(item, path, required[k])])

\* SchemaValidator.validate with the score taken from the number of errors
\* instead of the number of items without error
SchemaValidator_validate_ErrorRate(data, data_type) ==
    LET items == ItemsOf(data)
        required == SchemaRequired(data_type)
        item_errors == [i \in DOMAIN items |-> validate_item(items[i], i - 1, required)]
        errors == Concat(item_errors)
        total_count == Len(items)
        validated_count == Cardinality({i \in DOMAIN items : item_errors[i] = <<>>})
        score == IF total_count > 0
                 THEN RatMax(Zero, Rat(total_count - Len(errors), total_count))
                 ELSE Zero
        confidence == RatMax(Zero, RatMin(One, Rat(10 - Len(errors), 10)))
        status == IF errors = <<>> THEN PASSED ELSE FAILED
    IN  ValidationResult("Schema Validation", status, score, confidence, errors,
                         [total_items |-> total_count,
                          validated_items |-> validated_count,
                          schema_type |-> data_type])

\* SchemaValidator.validate with the confidence taken from the number of
\* failing items instead of the number of error messages
SchemaValidator_validate_PerItem(data, data_type) ==
    LET items == ItemsOf(data)
        required == SchemaRequired(data_type)
        item_errors == [i \in DOMAIN items |-> validate_item(items[i], i - 1, required)]
        errors == Concat(item_errors)
        total_count == Len(items)
        validated_count == Cardinality({i \in DOMAIN items : item_errors[i] = <<>>})
        score == IF total_count > 0 THEN Rat(validated_count, total_count) ELSE Zero
        confidence == RatMax(Zero, RatMin(One,
                          Rat(10 - (total_count - validated_count), 10)))
        status == IF errors = <<>> THEN PASSED ELSE FAILED
    IN  ValidationResult("Schema Validation", status, score, confidence, errors,
                         [total_items |-> total_count,
                          validated_items |-> validated_count,
                          schema_type |-> data_type])

SchemaValidator_validate(data, data_type) ==
    LET items == ItemsOf(data)
        required == SchemaRequired(data_type)
        item_errors == [i \in DOMAIN items |-> validate_item(items[i], i - 1, required)]
        errors == Concat(item_errors)
        total_count == Len(items)
        validated_count == Cardinality({i \in DOMAIN items : item_errors[i] = <<>>})
        score == IF total_count > 0 THEN Rat(validated_count, total_count) ELSE Zero
        confidence == RatMax(Zero, RatMin(One, Rat(10 - Len(errors), 10)))
        status == IF errors = <<>> THEN PASSED ELSE FAILED
    IN  ValidationResult("Schema Validation", status, score, confidence, errors,
                         [total_items |-> total_count,
                          validated_items |-> validated_count,
                          schema_type |-> data_type])

(***************************************************************************)
(* Step 2: CrossReferenceValidator.                                        *)
(***************************************************************************)
\* longest identifier _validate_id_format accepts
MaxIdLen == 256

\* an exception leaving a coroutine instead of a result
Raised(exc) == [step |-> "Raised", exc |-> exc]

IsRaised(r) == r.step = "Raised"

\* len(v) raises TypeError for a value that has no length
LenRaises(v) == v.t \notin {"str", "list"}

\* len(v) for a value that has a length
PyLen(v) == IF v.t = "list" THEN 1 ELSE Len(v.s)

\* bool(id_value) and len(id_value) >= 1 and len(id_value) <= 256,
\* for a value whose len() is defined
validate_id_format(id_value) ==
    Truthy(id_value) /\ PyLen(id_value) >= 1 /\ PyLen(id_value) <= MaxIdLen

\* item_id = item.get('id', ''); item_id and self._validate_id_format(item_id)
\* "match", "mismatch", or "raise" when len() is applied to a truthy number
IdCheck(item) ==
    LET item_id == DictGet(item, "id", PyStr(<<>>))
    IN  IF ~Truthy(item_id) THEN "mismatch"
        ELSE IF LenRaises(item_id) THEN "raise"
        ELSE IF validate_id_format(item_id) THEN "match"
        ELSE "mismatch"

check_internal_consistency(item) ==
    IF "price" \in DOMAIN item.d /\ "estimated_value" \in DOMAIN item.d
    THEN LET price == item.d["price"]
             estimated == item.d["estimated_value"]
         IN  IF Truthy(price) /\ Truthy(estimated)
                /\ IsNumber(price) /\ IsNumber(estimated)
             THEN LET ratio == IF estimated.n # 0
                               THEN Rat(price.n, estimated.n) ELSE Zero
                  IN  ~(RatLt(ratio, Rat(1, 10)) \/ RatLt(Rat(10, 1), ratio))
             ELSE TRUE
    ELSE TRUE

\* CrossReferenceValidator.validate with score > 0.8 in place of score >= 0.8
CrossReferenceValidator_validate_Strict(data) ==
    LET items == ItemsOf(data)
        dicts == {i \in DOMAIN items : items[i].kind = "dict"}
        idOk == {i \in dicts : IdCheck(items[i]) = "match"}
        consistent == {i \in dicts : check_internal_consistency(items[i])}
        matches == Cardinality(idOk) + Cardinality(consistent)
        mismatches == Cardinality(dicts \ idOk) + Cardinality(dicts \ consistent)
        total == matches + mismatches
        score == IF total > 0 THEN Rat(matches, total) ELSE One
        status == IF mismatches = 0 THEN PASSED
                  ELSE IF RatLt(Rat(8, 10), score) THEN WARNING ELSE FAILED
    IN  IF \E i \in dicts : IdCheck(items[i]) = "raise"
        THEN Raised("TypeError")
        ELSE ValidationResult("Cross-Reference Validation", status, score, score,
                              <<>>,
                              [matches |-> matches, mismatches |-> mismatches,
                               total_checks |-> total])

CrossReferenceValidator_validate(data) ==
    LET items == ItemsOf(data)
        dicts == {i \in DOMAIN items : items[i].kind = "dict"}
        idOk == {i \in dicts : IdCheck(items[i]) = "match"}
        consistent == {i \in dicts : check_internal_consistency(items[i])}
        matches == Cardinality(idOk) + Cardinality(consistent)
        mismatches == Cardinality(dicts \ idOk) + Cardinality(dicts \ consistent)
        total == matches + mismatches
        score == IF total > 0 THEN Rat(matches, total) ELSE One
        status == IF mismatches = 0 THEN PASSED
                  ELSE IF RatLeq(Rat(8, 10), score) THEN WARNING ELSE FAILED
    IN  IF \E i \in dicts : IdCheck(items[i]) = "raise"
        THEN Raised("TypeError")
        ELSE ValidationResult("Cross-Reference Validation", status, score, score,
                              <<>>,
                              [matches |-> matches, mismatches |-> mismatches,
                               total_checks |-> total])

(***************************************************************************)
(* Step 3: ExternalVerifier.                                               *)
(***************************************************************************)
UPPER ==
    <<"A", "B", "C", "D", "E", "F", "G", "H", "I", "J", "K", "L", "M",
      "N", "O", "P", "Q", "R", "S", "T", "U", "V", "W", "X", "Y", "Z">>

LOWER ==
    <<"a", "b", "c", "d", "e", "f", "g", "h", "i", "j", "k", "l", "m",
      "n", "o", "p", "q", "r", "s", "t", "u", "v", "w", "x", "y", "z">>

LowerChar(c) ==
    IF \E i \in DOMAIN UPPER : UPPER[i] = c
    THEN LOWER[CHOOSE i \in DOMAIN UPPER : UPPER[i] = c]
    ELSE c

\* value.lower()
Lower(s) == [i \in DOMAIN s |-> LowerChar(s[i])]

\* sub in s
Contains(sub, s) ==
    \E i \in 1..(Len(s) - Len(sub) + 1) : SubSeq(s, i, i + Len(sub) - 1) = sub

PlaceholderMarkers ==
    {<<"t", "e", "s", "t">>,
     <<"d", "u", "m", "m", "y">>,
     <<"f", "a", "k", "e">>,
     <<"x", "x", "x">>,
     <<"p", "l", "a", "c", "e", "h", "o", "l", "d", "e", "r">>}

is_reasonable_data(item) ==
    \A key \in DOMAIN item.d :
        item.d[key].t = "str" =>
            ~\E x \in PlaceholderMarkers : Contains(x, Lower(item.d[key].s))

\* ExternalVerifier.validate that records nothing for a key that is not
\* configured: the credential check is left out instead of failed
ExternalVerifier_validate_SkipsKeyCheck(data, gemini_api_key) ==
    LET items == ItemsOf(data)
        valid_items == Cardinality({i \in DOMAIN items :
                           items[i].kind = "dict" /\ is_reasonable_data(items[i])})
        ratio == IF items # <<>> THEN Rat(valid_items, Len(items)) ELSE Zero
        keyCheck ==
            IF gemini_api_key
            THEN <<[ok |-> TRUE, source |-> "Gemini API", msg |-> "API key present"]>>
            ELSE <<>>
        verifications ==
            keyCheck \o
            <<[ok |-> RatLeq(Rat(9, 10), ratio), source |-> "Data Patterns",
               msg |-> IF RatLeq(Rat(9, 10), ratio) THEN "items valid"
                       ELSE "Only items valid"]>>
        passed == Cardinality({v \in DOMAIN verifications : verifications[v].ok})
        total == Len(verifications)
        score == IF total > 0 THEN Rat(passed, total) ELSE Zero
        status == IF passed = total THEN PASSED
                  ELSE IF RatLeq(Rat(5, 10), score) THEN WARNING ELSE FAILED
        failedChecks == SelectSeq(verifications, LAMBDA v : ~v.ok)
    IN  ValidationResult("External Verification", status, score,
                         RatMul(score, Rat(9, 10)),
                         [k \in DOMAIN failedChecks |-> failedChecks[k].msg],
                         [verified |-> passed, total |-> total])

\* ExternalVerifier.validate with score > 0.5 in place of score >= 0.5
ExternalVerifier_validate_StrictHalf(data, gemini_api_key) ==
    LET items == ItemsOf(data)
        valid_items == Cardinality({i \in DOMAIN items :
                           items[i].kind = "dict" /\ is_reasonable_data(items[i])})
        ratio == IF items # <<>> THEN Rat(valid_items, Len(items)) ELSE Zero
        verifications ==
            <<[ok |-> gemini_api_key, source |-> "Gemini API",
               msg |-> IF gemini_api_key THEN "API key present"
                       ELSE "API key not configured"],
              [ok |-> RatLeq(Rat(9, 10), ratio), source |-> "Data Patterns",
               msg |-> IF RatLeq(Rat(9, 10), ratio) THEN "items valid"
                       ELSE "Only items valid"]>>
        passed == Cardinality({v \in DOMAIN verifications : verifications[v].ok})
        total == Len(verifications)
        score == IF total > 0 THEN Rat(passed, total) ELSE Zero
        status == IF passed = total THEN PASSED
                  ELSE IF RatLt(Rat(5, 10), score) THEN WARNING ELSE FAILED
        failedChecks == SelectSeq(verifications, LAMBDA v : ~v.ok)
    IN  ValidationResult("External Verification", status, score,
                         RatMul(score, Rat(9, 10)),
                         [k \in DOMAIN failedChecks |-> failedChecks[k].msg],
                         [verified |-> passed, total |-> total])

ExternalVerifier_validate(data, gemini_api_key) ==
    LET items == ItemsOf(data)
        valid_items == Cardinality({i \in DOMAIN items :
                           items[i].kind = "dict" /\ is_reasonable_data(items[i])})
        ratio == IF items # <<>> THEN Rat(valid_items, Len(items)) ELSE Zero
        verifications ==
            <<[ok |-> gemini_api_key, source |-> "Gemini API",
               msg |-> IF gemini_api_key THEN "API key present"
                       ELSE "API key not configured"],
              [ok |-> RatLeq(Rat(9, 10), ratio), source |-> "Data Patterns",
               msg |-> IF RatLeq(Rat(9, 10), ratio) THEN "items valid"
                       ELSE "Only items valid"]>>
        passed == Cardinality({v \in DOMAIN verifications : verifications[v].ok})
        total == Len(verifications)
        score == IF total > 0 THEN Rat(passed, total) ELSE Zero
        status == IF passed = total THEN PASSED
                  ELSE IF RatLeq(Rat(5, 10), score) THEN WARNING ELSE FAILED
        failedChecks == SelectSeq(verifications, LAMBDA v : ~v.ok)
    IN  ValidationResult("External Verification", status, score,
                         RatMul(score, Rat(9, 10)),
                         [k \in DOMAIN failedChecks |-> failedChecks[k].msg],
                         [verified |-> passed, total |-> total])

(***************************************************************************)
(* TripleValidationReport and its aggregation.                             *)
(***************************************************************************)
\* NewReport with the status field defaulting to PASSED
NewReport_Passed(data_type) ==
    [data_type |-> data_type, level |-> "strict",
     step1_result |-> NoResult, step2_result |-> NoResult,
     step3_result |-> NoResult,
     overall_status |-> PASSED, overall_score |-> Zero,
     overall_confidence |-> Zero, end_time_set |-> FALSE]

\* the report as validate creates it: no step result, status PENDING
NewReport(data_type) ==
    [data_type |-> data_type, level |-> "strict",
     step1_result |-> NoResult, step2_result |-> NoResult,
     step3_result |-> NoResult,
     overall_status |-> PENDING, overall_score |-> Zero,
     overall_confidence |-> Zero, end_time_set |-> FALSE]

\* weights with the first two entries exchanged
weights_Swapped == <<Rat(35, 100), Rat(40, 100), Rat(25, 100)>>

\* weights = [0.4, 0.35, 0.25]
weights == <<Rat(40, 100), Rat(35, 100), Rat(25, 100)>>

\* weights[i] if i < len(weights) else weights[-1], for the 1-based index i
WeightAt(i) == IF i <= Len(weights) THEN weights[i] ELSE weights[Len(weights)]

\* the loop "for i, result in enumerate(results): total += value * weight"
RECURSIVE WeightedSum(_, _)
WeightedSum(values, i) ==
    IF i > Len(values) THEN Zero
    ELSE RatAdd(RatMul(values[i], WeightAt(i)), WeightedSum(values, i + 1))

\* OverallStatus with all() in place of any() for the FAILED branch
OverallStatus_AllFailed(results) ==
    LET all_passed == \A k \in DOMAIN results : results[k].status = PASSED
        all_failed == \A k \in DOMAIN results : results[k].status = FAILED
    IN  IF all_passed THEN PASSED
        ELSE IF all_failed THEN FAILED
        ELSE WARNING

\* OverallStatus with any() in place of all() for the PASSED branch
OverallStatus_AnyPassed(results) ==
    LET any_passed == \E k \in DOMAIN results : results[k].status = PASSED
        any_failed == \E k \in DOMAIN results : results[k].status = FAILED
    IN  IF any_passed THEN PASSED
        ELSE IF any_failed THEN FAILED
        ELSE WARNING

\* all_passed / any_failed and the three-way branch on them
OverallStatus(results) ==
    LET all_passed == \A k \in DOMAIN results : results[k].status = PASSED
        any_failed == \E k \in DOMAIN results : results[k].status = FAILED
    IN  IF all_passed THEN PASSED
        ELSE IF any_failed THEN FAILED
        ELSE WARNING

calculate_overall(report) ==
    LET results == SelectSeq(<<report.step1_result, report.step2_result,
                               report.step3_result>>,
                             LAMBDA r : r.step # "None")
    IN  IF results = <<>> THEN report
        ELSE [report EXCEPT
                !.overall_score =
                    WeightedSum([k \in DOMAIN results |-> results[k].score], 1),
                !.overall_confidence =
                    WeightedSum([k \in DOMAIN results |-> results[k].confidence], 1),
                !.overall_status = OverallStatus(results),
                !.end_time_set = TRUE]

(***************************************************************************)
(* Batch orchestration.                                                    *)
(***************************************************************************)
\* no report yet: the task of a validate call that has not started
NoReport == [data_type |-> "None"]

\* tasks = [self.validate(item) for item in items], wrapped by asyncio.gather
\* into one scheduled task per item
ScheduledTasks(data_list) ==
    [i \in DOMAIN data_list |->
        [pc |-> "scheduled", report |-> NoReport, log |-> <<>>, exc |-> "None"]]

\* the value asyncio.gather returns: the tasks' results in the order of the
\* awaitables it was given, whatever the order they finished in
gather(tasks, done_order) == [i \in DOMAIN tasks |-> tasks[i].report]

\* Summary with the failed count as the numerator of pass_rate
Summary_FailedRate(reports) ==
    LET passed == Cardinality({i \in DOMAIN reports :
                                   reports[i].overall_status = PASSED})
        failed == Cardinality({i \in DOMAIN reports :
                                   reports[i].overall_status = FAILED})
    IN  [total |-> Len(reports), passed |-> passed, failed |-> failed,
         pass_rate |-> IF reports # <<>> THEN Rat(failed, Len(reports)) ELSE Zero,
         reports |-> reports]

\* Summary with every report that is not PASSED counted as failed
Summary_NotPassedFailed(reports) ==
    LET passed == Cardinality({i \in DOMAIN reports :
                                   reports[i].overall_status = PASSED})
        failed == Cardinality({i \in DOMAIN reports :
                                   reports[i].overall_status # PASSED})
    IN  [total |-> Len(reports), passed |-> passed, failed |-> failed,
         pass_rate |-> IF reports # <<>> THEN Rat(passed, Len(reports)) ELSE Zero,
         reports |-> reports]

\* the summary validate_all_intelligence folds the reports into
Summary(reports) ==
    LET passed == Cardinality({i \in DOMAIN reports :
                                   reports[i].overall_status = PASSED})
        failed == Cardinality({i \in DOMAIN reports :
                                   reports[i].overall_status = FAILED})
    IN  [total |-> Len(reports), passed |-> passed, failed |-> failed,
         pass_rate |-> IF reports # <<>> THEN Rat(passed, Len(reports)) ELSE Zero,
         reports |-> reports]

(***************************************************************************)
(* Inputs: the records and lists the validator is run on.                  *)
(***************************************************************************)
Url == PyStr(<<"h", "t", "t", "p", "s", ":", "/", "/", "x">>)
Stamp == PyStr(<<"2", "0", "2", "6">>)
LeadId == PyStr(<<"l", "e", "a", "d", "_", "0", "0", "1">>)

LeadFields == ("id" :> LeadId) @@ ("source_url" :> Url) @@ ("scraped_at" :> Stamp)

GoodLead == PyDict(LeadFields)
\* price / estimated_value = 0.25, inside the band
LeadInBand ==
    PyDict(LeadFields @@ ("price" :> PyInt(25)) @@ ("estimated_value" :> PyInt(100)))
\* price / estimated_value = 0.025, outside the band
LeadOutOfBand ==
    PyDict(LeadFields @@ ("price" :> PyInt(25)) @@ ("estimated_value" :> PyInt(1000)))
LeadNoUrl == PyDict(("id" :> LeadId) @@ ("scraped_at" :> Stamp))
LeadNullStamp == PyDict(("scraped_at" :> PyNone) @@ LeadFields)
LeadEmptyId == PyDict(("id" :> PyStr(<<>>)) @@ LeadFields)
LeadIntId == PyDict(("id" :> PyInt(123)) @@ LeadFields)
LeadZeroId == PyDict(("id" :> PyInt(0)) @@ LeadFields)
LeadLongId == PyDict(("id" :> PyStr([i \in 1..(MaxIdLen + 1) |-> "a"])) @@ LeadFields)
LeadPlaceholder ==
    PyDict(LeadFields @@ ("owner_name" :> PyStr(<<"T", "e", "s", "t", " ", "C", "o">>)))
\* the same placeholder text one level down: tags = ['Test Co']
LeadNestedPlaceholder ==
    PyDict(LeadFields @@ ("tags" :> PyStrList(<<"T", "e", "s", "t", " ", "C", "o">>)))
\* a nested value without placeholder text: tags = ['https://x']
LeadNestedClean == PyDict(LeadFields @@ ("tags" :> PyStrList(Url.s)))
\* a marker inside a longer word, in capitals: owner_name = 'CONTESTED'
LeadMarkerInside ==
    PyDict(LeadFields @@ ("owner_name" :>
               PyStr(<<"C", "O", "N", "T", "E", "S", "T", "E", "D">>)))
\* a marker as the name of a field, not in a value: {'test': 1}
LeadMarkerKey == PyDict(LeadFields @@ ("test" :> PyInt(1)))
GoodProperty ==
    PyDict(("id" :> LeadId) @@ ("address" :> Url) @@ ("property_type" :> Stamp))
GoodIntelligence ==
    PyDict(("id" :> LeadId) @@ ("type" :> Url) @@ ("source" :> Url)
           @@ ("timestamp" :> Stamp))
GoodRepository == PyDict(("name" :> LeadId) @@ ("full_name" :> Url))
\* a dict without any key
EmptyDict == PyDict(<<>>)
\* price 0: the ratio is 0, below the band
LeadZeroPrice ==
    PyDict(LeadFields @@ ("price" :> PyInt(0)) @@ ("estimated_value" :> PyInt(100)))
\* estimated_value 0: the ratio is not defined
LeadZeroEstimate ==
    PyDict(LeadFields @@ ("price" :> PyInt(25)) @@ ("estimated_value" :> PyInt(0)))
\* a negative price: the ratio is -0.25, below the band
LeadNegativePrice ==
    PyDict(LeadFields @@ ("price" :> PyInt(-25)) @@ ("estimated_value" :> PyInt(100)))
\* both negative: the ratio is 0.25, inside the band
LeadBothNegative ==
    PyDict(LeadFields @@ ("price" :> PyInt(-25)) @@ ("estimated_value" :> PyInt(-100)))
\* the ends of the band: ratio 0.1 and ratio 10
LeadRatioTenth ==
    PyDict(LeadFields @@ ("price" :> PyInt(10)) @@ ("estimated_value" :> PyInt(100)))
LeadRatioTen ==
    PyDict(LeadFields @@ ("price" :> PyInt(100)) @@ ("estimated_value" :> PyInt(10)))
\* just above the band: ratio 10.1
LeadRatioAboveTen ==
    PyDict(LeadFields @@ ("price" :> PyInt(101)) @@ ("estimated_value" :> PyInt(10)))
\* a price that is not a number
LeadTextPrice ==
    PyDict(LeadFields @@ ("price" :> Url) @@ ("estimated_value" :> PyInt(1000)))
\* a price without an estimated value
LeadPriceOnly == PyDict(LeadFields @@ ("price" :> PyInt(25)))

\* the values a single validate call is run on
Records ==
    {GoodLead, LeadInBand, LeadOutOfBand, LeadNoUrl, LeadNullStamp, LeadEmptyId,
     LeadIntId, LeadZeroId, LeadLongId, LeadPlaceholder, GoodProperty,
     GoodIntelligence, GoodRepository, PyScalar, EmptyDict, LeadZeroPrice,
     LeadZeroEstimate, LeadNegativePrice, LeadBothNegative, LeadRatioTenth,
     LeadRatioTen, LeadRatioAboveTen, LeadTextPrice, LeadPriceOnly,
     LeadNestedPlaceholder, LeadNestedClean, LeadMarkerInside, LeadMarkerKey}

Lists ==
    {PyList(<<>>),
     PyList(<<GoodLead>>),
     PyList(<<GoodLead, LeadNoUrl>>),
     PyList(<<LeadNullStamp, GoodLead>>),
     PyList(<<GoodLead, PyScalar>>),
     PyList(<<GoodLead, LeadIntId>>),
     PyList(<<GoodLead, GoodLead, LeadOutOfBand>>),
     PyList(<<GoodLead, LeadPlaceholder>>),
     PyList(<<GoodLead, EmptyDict>>),
     PyList(<<EmptyDict, EmptyDict, EmptyDict, PyScalar>>),
     PyList(<<EmptyDict, EmptyDict, EmptyDict, EmptyDict>>),
     PyList(<<GoodLead, GoodLead, GoodLead, LeadOutOfBand, LeadOutOfBand>>),
     PyList(<<LeadPlaceholder, GoodLead, GoodLead, GoodLead, GoodLead,
              GoodLead, GoodLead, GoodLead, GoodLead, GoodLead>>),
     PyList(<<LeadPlaceholder, LeadPlaceholder, GoodLead, GoodLead, GoodLead,
              GoodLead, GoodLead, GoodLead, GoodLead, GoodLead>>)}

\* the records batches are made of
BatchRecords == {GoodLead, LeadNoUrl, LeadIntId}

RECURSIVE SeqsUpTo(_, _)
SeqsUpTo(S, n) ==
    IF n = 0 THEN {<<>>}
    ELSE LET shorter == SeqsUpTo(S, n - 1)
         IN  shorter \cup {Append(xs, x) : xs \in {ys \in shorter : Len(ys) = n - 1},
                                            x \in S}

\* the lists handed to validate_batch
Batches ==
    SeqsUpTo(BatchRecords, MaxBatch) \cup {<<d>> : d \in Records \cup Lists}

DataTypes == {"lead", "property", "intelligence", "repository", "unknown"}

(***************************************************************************)
(* State.                                                                  *)
(***************************************************************************)
VARIABLES
    data_list,       \* the list the caller hands to the batch entry point
    gemini_api_key,  \* whether GEMINI_API_KEY is set in the environment
    main,            \* where the caller is
    entry,           \* the entry point the caller used
    data_type,       \* data_type of the constructed ComprehensiveValidator
    tasks,           \* the validate task of each item of the batch
    running,         \* the task the event loop is executing, 0 if none
    done_order,      \* the tasks that returned, in the order they finished
    batch_result,    \* what validate_batch handed back to its caller
    summary          \* what validate_all_intelligence returned

\* IntelligenceValidator.validate and TripleValidation.validate
VARIABLES
    iv_pc,           \* where the caller of IntelligenceValidator.validate is
    iv_checks,       \* the three checks validate gathers
    iv_result,       \* what IntelligenceValidator.validate handed back
    lead_data,       \* the lead handed to TripleValidation.validate
    tv_pc,           \* where TripleValidation.validate is
    tv_log,          \* the steps TripleValidation.validate invoked, in order
    tv_steps,        \* the (result, confidence) each invoked step returned
    tv_response,     \* what the generation service brought back to step 3
    tv_result        \* what TripleValidation.validate returned

\* the HTTP server
VARIABLES
    pipeline_status, \* pipeline_status["status"] and ["runs_completed"]
    pipeline_lock,   \* the thread holding pipeline_lock, 0 if none
    requests,        \* the POST /run request handlers
    threads          \* the background thread each handler started

validator_vars ==
    <<data_list, gemini_api_key, main, entry, data_type, tasks, running,
      done_order, batch_result, summary>>

external_vars ==
    <<iv_pc, iv_checks, iv_result, lead_data, tv_pc, tv_log, tv_steps,
      tv_response, tv_result>>

server_vars == <<pipeline_status, pipeline_lock, requests, threads>>

vars == <<validator_vars, external_vars, server_vars>>

\* no call of IntelligenceValidator or TripleValidation is under way
ExternalIdle ==
    /\ iv_pc = "idle"
    /\ iv_checks = <<>>
    /\ iv_result = [kind |-> "None"]
    /\ lead_data = [kind |-> "None"]
    /\ tv_pc = "idle"
    /\ tv_log = <<>>
    /\ tv_steps = <<>>
    /\ tv_response = [exc |-> "None", text |-> <<>>]
    /\ tv_result = [kind |-> "None"]

\* the server module as imported: status idle, lock free, no request
ServerIdle ==
    /\ pipeline_status = [status |-> "idle", runs_completed |-> 0]
    /\ pipeline_lock = 0
    /\ requests = <<>>
    /\ threads = <<>>

NoBatchResult == [kind |-> "None"]
NoSummary == [total |-> -1]

Init ==
    /\ data_list \in Batches
    /\ gemini_api_key \in BOOLEAN
    /\ main = "idle"
    /\ entry = "None"
    /\ data_type = "None"
    /\ tasks = <<>>
    /\ running = 0
    /\ done_order = <<>>
    /\ batch_result = NoBatchResult
    /\ summary = NoSummary
    /\ ExternalIdle
    /\ ServerIdle

(***************************************************************************)
(* Entry points.                                                           *)
(***************************************************************************)
\* ComprehensiveValidator(level, data_type): never fails, whatever data_type
\* and whether or not the API key is configured
NewValidator(dt) ==
    /\ main = "idle"
    /\ main' = "constructed"
    /\ entry' = "validate_batch"
    /\ data_type' = dt
    /\ UNCHANGED <<external_vars, server_vars, data_list, gemini_api_key, tasks, running, done_order,
                   batch_result, summary>>

\* IntelligenceValidator(): raises ValueError when GEMINI_API_KEY is not set
NewIntelligenceValidator ==
    /\ main = "idle"
    /\ main' = IF gemini_api_key THEN "intelligence_validator" ELSE "ValueError"
    /\ UNCHANGED <<external_vars, server_vars, data_list, gemini_api_key, entry, data_type, tasks, running,
                   done_order, batch_result, summary>>

\* validator.validate_batch(items), up to the await of asyncio.gather
ValidateBatch ==
    /\ main = "constructed"
    /\ main' = "gather"
    /\ tasks' = ScheduledTasks(data_list)
    /\ UNCHANGED <<external_vars, server_vars, data_list, gemini_api_key, entry, data_type, running,
                   done_order, batch_result, summary>>

\* validate_all_intelligence(data_list), up to the await of validate_batch:
\* a STRICT validator of the default data type, then validate_batch
ValidateAllIntelligence ==
    /\ main = "idle"
    /\ main' = "gather"
    /\ entry' = "validate_all_intelligence"
    /\ data_type' = "lead"
    /\ tasks' = ScheduledTasks(data_list)
    /\ UNCHANGED <<external_vars, server_vars, data_list, gemini_api_key, running, done_order,
                   batch_result, summary>>

(***************************************************************************)
(* ComprehensiveValidator.validate, one action per stage.  None of the     *)
(* awaited stage coroutines suspends, so the event loop runs one task from *)
(* its start to its end before it starts another.                          *)
(***************************************************************************)
\* the loop picks a scheduled task; validate creates its report
StartValidate(i) ==
    /\ running = 0
    /\ i \in DOMAIN tasks
    /\ tasks[i].pc = "scheduled"
    /\ running' = i
    /\ tasks' = [tasks EXCEPT ![i].pc = "step1",
                              ![i].report = NewReport(data_type)]
    /\ UNCHANGED <<external_vars, server_vars, data_list, gemini_api_key, main, entry, data_type,
                   done_order, batch_result, summary>>

\* Step1 of a schema validator that keeps its error list between calls: the
\* errors of the validations that ran before lower the confidence
Step1_Accumulating(i) ==
    /\ running = i
    /\ tasks[i].pc = "step1"
    /\ LET r == SchemaValidator_validate(data_list[i], data_type)
           earlier == {j \in DOMAIN tasks : j # i /\ tasks[j].log # <<>>}
           kept == Cardinality({j \in earlier :
                                    tasks[j].report.step1_result.errors # <<>>})
       IN  tasks' = [tasks EXCEPT
                       ![i].pc = "step2",
                       ![i].log = Append(@, 1),
                       ![i].report.step1_result =
                           [r EXCEPT !.confidence =
                               RatMax(Zero, RatMin(One,
                                   Rat(10 - Len(r.errors) - kept, 10)))]]
    /\ UNCHANGED <<external_vars, server_vars, data_list, gemini_api_key, main, entry, data_type, running,
                   done_order, batch_result, summary>>

\* report.step1_result = await self.schema_validator.validate(data)
Step1(i) ==
    /\ running = i
    /\ tasks[i].pc = "step1"
    /\ tasks' = [tasks EXCEPT
                   ![i].pc = "step2",
                   ![i].log = Append(@, 1),
                   ![i].report.step1_result =
                       SchemaValidator_validate(data_list[i], data_type)]
    /\ UNCHANGED <<external_vars, server_vars, data_list, gemini_api_key, main, entry, data_type, running,
                   done_order, batch_result, summary>>

\* report.step2_result = await self.cross_ref_validator.validate(data);
\* an exception of the stage leaves validate and ends the task
Step2(i) ==
    /\ running = i
    /\ tasks[i].pc = "step2"
    /\ LET r == CrossReferenceValidator_validate(data_list[i])
       IN  IF IsRaised(r)
           THEN /\ tasks' = [tasks EXCEPT ![i].pc = "raised",
                                          ![i].log = Append(@, 2),
                                          ![i].exc = r.exc]
                /\ running' = 0
           ELSE /\ tasks' = [tasks EXCEPT ![i].pc = "step3",
                                          ![i].log = Append(@, 2),
                                          ![i].report.step2_result = r]
                /\ UNCHANGED running
    /\ UNCHANGED <<external_vars, server_vars, data_list, gemini_api_key, main, entry, data_type,
                   done_order, batch_result, summary>>

\* report.step3_result = await self.external_verifier.validate(data)
Step3(i) ==
    /\ running = i
    /\ tasks[i].pc = "step3"
    /\ tasks' = [tasks EXCEPT
                   ![i].pc = "calculate",
                   ![i].log = Append(@, 3),
                   ![i].report.step3_result =
                       ExternalVerifier_validate(data_list[i], gemini_api_key)]
    /\ UNCHANGED <<external_vars, server_vars, data_list, gemini_api_key, main, entry, data_type, running,
                   done_order, batch_result, summary>>

\* report.calculate_overall(); return report
Finish(i) ==
    /\ running = i
    /\ tasks[i].pc = "calculate"
    /\ tasks' = [tasks EXCEPT ![i].pc = "done",
                              ![i].report = calculate_overall(@)]
    /\ running' = 0
    /\ done_order' = Append(done_order, i)
    /\ UNCHANGED <<external_vars, server_vars, data_list, gemini_api_key, main, entry, data_type,
                   batch_result, summary>>

(***************************************************************************)
(* The end of the batch.                                                   *)
(***************************************************************************)
\* every task returned: gather hands the list of reports to validate_batch,
\* which returns it
GatherReturn ==
    /\ main = "gather"
    /\ \A i \in DOMAIN tasks : tasks[i].pc = "done"
    /\ main' = "returned"
    /\ batch_result' = [kind |-> "list", reports |-> gather(tasks, done_order)]
    /\ UNCHANGED <<external_vars, server_vars, data_list, gemini_api_key, entry, data_type, tasks, running,
                   done_order, summary>>

\* a task raised: gather (return_exceptions not set) raises that exception
\* into validate_batch, which has no handler, and so into its caller; the
\* other tasks are not cancelled
GatherRaise(i) ==
    /\ main = "gather"
    /\ running = 0
    /\ i \in DOMAIN tasks
    /\ tasks[i].pc = "raised"
    /\ main' = "raised"
    /\ batch_result' = [kind |-> "exception", exc |-> tasks[i].exc]
    /\ UNCHANGED <<external_vars, server_vars, data_list, gemini_api_key, entry, data_type, tasks, running,
                   done_order, summary>>

\* validate_all_intelligence after validate_batch returned
Summarise ==
    /\ main = "returned"
    /\ entry = "validate_all_intelligence"
    /\ main' = "summarised"
    /\ summary' = Summary(batch_result.reports)
    /\ UNCHANGED <<external_vars, server_vars, data_list, gemini_api_key, entry, data_type, tasks, running,
                   done_order, batch_result>>

Next ==
    \/ \E dt \in DataTypes : NewValidator(dt)
    \/ NewIntelligenceValidator
    \/ ValidateBatch
    \/ ValidateAllIntelligence
    \/ \E i \in 1..MaxBatch : StartValidate(i)
    \/ \E i \in 1..MaxBatch : Step1(i)
    \/ \E i \in 1..MaxBatch : Step2(i)
    \/ \E i \in 1..MaxBatch : Step3(i)
    \/ \E i \in 1..MaxBatch : Finish(i)
    \/ GatherReturn
    \/ \E i \in 1..MaxBatch : GatherRaise(i)
    \/ Summarise

Spec == Init /\ [][Next]_vars

(***************************************************************************)
(* External calls (src/src/validation/intelligence_validator.py and        *)
(* validation_system.py): what a call can bring back, and which handler    *)
(* catches what.                                                           *)
(***************************************************************************)
\* the classes an exception is an instance of (itself and its bases)
ExceptionBases ==
    [ClientConnectorError |-> {"ClientConnectorError", "ClientError", "Exception"},
     ClientResponseError |-> {"ClientResponseError", "ClientError", "Exception"},
     ContentTypeError |-> {"ContentTypeError", "ClientResponseError",
                           "ClientError", "Exception"},
     TimeoutError |-> {"TimeoutError", "Exception"},
     JSONDecodeError |-> {"JSONDecodeError", "ValueError", "Exception"},
     ValueError |-> {"ValueError", "Exception"},
     AttributeError |-> {"AttributeError", "Exception"},
     GoogleAPIError |-> {"GoogleAPIError", "Exception"},
     DeadlineExceeded |-> {"DeadlineExceeded", "GoogleAPIError", "Exception"}]

\* "except (classes) as e" catches the exception
Catches(classes, exc) == ExceptionBases[exc] \cap classes # {}

\* how a coroutine ends: with a value, or with an exception leaving it
Returns(v) == [kind |-> "return", value |-> v, exc |-> "None"]
Raises(exc) == [kind |-> "raise", value |-> FALSE, exc |-> exc]

\* no body: the request did not get as far as a parsed JSON body
NoPayload == [kind |-> "None", d |-> <<>>, elems |-> <<>>]

\* the data main() validates
SampleData ==
    PyDict(("lead_name" :> PyStr(<<"J", "o", "h", "n">>))
           @@ ("company" :> PyStr(<<"A", "c", "m", "e">>)))

\* what session.get / raise_for_status / response.json() can bring: an
\* exception of the HTTP layer, or a parsed JSON body of any shape
HttpResponses ==
    {[exc |-> e, payload |-> NoPayload] :
        e \in {"ClientConnectorError",   \* network failure
               "TimeoutError",           \* timeout=10 elapsed
               "ClientResponseError",    \* raise_for_status on a 4xx / 5xx
               "ContentTypeError",       \* json() on a body that is not JSON
               "JSONDecodeError"}}       \* json() on malformed JSON
    \cup
    {[exc |-> "None", payload |-> body] :
        body \in {SampleData,
                  PyDict(SampleData.d @@ ("extra" :> PyInt(1))),
                  PyDict(("lead_name" :> PyStr(<<"J", "a", "n", "e">>))
                         @@ ("company" :> PyStr(<<"A", "c", "m", "e">>))),
                  PyDict(<<>>),
                  PyList(<<>>),          \* a JSON array
                  PyScalar}}             \* a JSON string, number or null

\* data.items() <= source_data.items(), both dicts
ItemsSubset(data, source_data) ==
    \A k \in DOMAIN data.d :
        k \in DOMAIN source_data.d /\ source_data.d[k] = data.d[k]

\* the except clause of _verify_with_external_source
ExternalSourceHandler == {"ClientError", "TimeoutError", "ValueError"}

\* _verify_with_external_source, given what the HTTP exchange brings: an
\* exception raised in the try body is caught if it is one of the three
\* classes; source_data.items() raises AttributeError for a body that is
\* not a JSON object
verify_with_external_source(data, response) ==
    LET exc == IF response.exc # "None" THEN response.exc
               ELSE IF response.payload.kind # "dict" THEN "AttributeError"
               ELSE "None"
    IN  IF exc = "None" THEN Returns(ItemsSubset(data, response.payload))
        ELSE IF Catches(ExternalSourceHandler, exc) THEN Returns(FALSE)
        ELSE Raises(exc)

\* str.strip(): leading and trailing blanks and newlines removed
Blank == {" ", "\n", "\t"}

RECURSIVE LStrip(_)
LStrip(s) == IF s # <<>> /\ Head(s) \in Blank THEN LStrip(Tail(s)) ELSE s

RECURSIVE RStrip(_)
RStrip(s) ==
    IF s # <<>> /\ s[Len(s)] \in Blank THEN RStrip(SubSeq(s, 1, Len(s) - 1)) ELSE s

Strip(s) == RStrip(LStrip(s))

\* what model.generate_content_async / response.text can bring: an
\* exception of the service, a response without text (response.text raises
\* ValueError), or a text
NoText == <<>>

GenerationResponses ==
    {[exc |-> e, text |-> NoText] :
        e \in {"GoogleAPIError",         \* the service failed
               "DeadlineExceeded",       \* the call timed out
               "ValueError"}}            \* a blocked response: no text
    \cup
    {[exc |-> "None", text |-> txt] :
        txt \in {<<"T", "r", "u", "e">>,
                 <<" ", "T", "R", "U", "E", "\n">>,
                 <<"F", "a", "l", "s", "e">>,
                 <<"T", "r", "u", "e", ".">>,
                 <<"0", ".", "9">>,
                 <<"0", ".", "7">>,
                 <<"0", ".", "3">>,
                 <<" ", "0", ".", "9", "\n">>}}

\* _verify_with_google_ai: every Exception is caught;
\* response.text.strip().lower() == 'true'
verify_with_google_ai(response) ==
    IF response.exc # "None"
    THEN IF Catches({"Exception"}, response.exc) THEN Returns(FALSE)
         ELSE Raises(response.exc)
    ELSE Returns(Lower(Strip(response.text)) = <<"t", "r", "u", "e">>)

(***************************************************************************)
(* IntelligenceValidator.validate: two external sources and the generation *)
(* service, gathered.  Each check suspends at its network call, so the     *)
(* three finish in any order.                                              *)
(***************************************************************************)
\* a check gather has scheduled and that has not finished
PendingCheck(kind) ==
    [kind |-> kind, pc |-> "pending", response |-> "None", outcome |-> "None"]

\* tasks = [...two external sources...]; tasks.append(google ai);
\* up to the await of asyncio.gather
IVValidate ==
    /\ iv_pc = "idle"
    /\ tv_pc = "idle"
    /\ iv_pc' = "gather"
    /\ iv_checks' = <<PendingCheck("external_source"),
                      PendingCheck("external_source"),
                      PendingCheck("google_ai")>>
    /\ UNCHANGED <<validator_vars, server_vars, iv_result, lead_data, tv_pc,
                   tv_log, tv_steps, tv_response, tv_result>>

\* one _verify_with_external_source call runs to its end
IVCheckExternal(k, response) ==
    /\ iv_pc = "gather"
    /\ k \in DOMAIN iv_checks
    /\ iv_checks[k].kind = "external_source"
    /\ iv_checks[k].pc = "pending"
    /\ LET r == verify_with_external_source(SampleData, response)
       IN  iv_checks' = [iv_checks EXCEPT ![k].pc = r.kind,
                                          ![k].response = response,
                                          ![k].outcome = r]
    /\ UNCHANGED <<validator_vars, server_vars, iv_pc, iv_result, lead_data,
                   tv_pc, tv_log, tv_steps, tv_response, tv_result>>

\* the _verify_with_google_ai call runs to its end
IVCheckGoogleAi(k, response) ==
    /\ iv_pc = "gather"
    /\ k \in DOMAIN iv_checks
    /\ iv_checks[k].kind = "google_ai"
    /\ iv_checks[k].pc = "pending"
    /\ LET r == verify_with_google_ai(response)
       IN  iv_checks' = [iv_checks EXCEPT ![k].pc = r.kind,
                                          ![k].response = response,
                                          ![k].outcome = r]
    /\ UNCHANGED <<validator_vars, server_vars, iv_pc, iv_result, lead_data,
                   tv_pc, tv_log, tv_steps, tv_response, tv_result>>

\* every check returned: results = await asyncio.gather(*tasks);
\* return all(results)
IVGatherReturn ==
    /\ iv_pc = "gather"
    /\ \A k \in DOMAIN iv_checks : iv_checks[k].pc = "return"
    /\ iv_pc' = "returned"
    /\ iv_result' = Returns(\A k \in DOMAIN iv_checks : iv_checks[k].outcome.value)
    /\ UNCHANGED <<validator_vars, server_vars, iv_checks, lead_data, tv_pc,
                   tv_log, tv_steps, tv_response, tv_result>>

\* a check raised: gather (return_exceptions not set) raises its exception
\* into validate, which has no handler, and so into the caller
IVGatherRaise(k) ==
    /\ iv_pc = "gather"
    /\ k \in DOMAIN iv_checks
    /\ iv_checks[k].pc = "raise"
    /\ iv_pc' = "raised"
    /\ iv_result' = Raises(iv_checks[k].outcome.exc)
    /\ UNCHANGED <<validator_vars, server_vars, iv_checks, lead_data, tv_pc,
                   tv_log, tv_steps, tv_response, tv_result>>

(***************************************************************************)
(* TripleValidation (src/src/validation/validation_system.py).             *)
(***************************************************************************)
\* what a step returns: (result, confidence)
StepReturn(ok, confidence) == [ok |-> ok, confidence |-> confidence]

\* s.split("@")[-1]: what follows the last "@", the whole string without one
RECURSIVE AfterLastAt(_)
AfterLastAt(s) ==
    IF Contains(<<"@">>, s)
    THEN AfterLastAt(SubSeq(s, (CHOOSE i \in DOMAIN s : s[i] = "@"
                                   /\ \A j \in 1..(i - 1) : s[j] # "@") + 1, Len(s)))
    ELSE s

\* step1_data_integrity
step1_data_integrity(lead) ==
    LET required_fields == <<"id", "name", "email">>
        missing_fields == SelectSeq(required_fields, LAMBDA f : f \notin DOMAIN lead.d)
    IN  IF missing_fields # <<>> THEN StepReturn(FALSE, Zero)
        ELSE IF \E k \in DOMAIN required_fields : lead.d[required_fields[k]].t # "str"
        THEN StepReturn(FALSE, Rat(1, 10))
        ELSE IF \/ ~Contains(<<"@">>, lead.d["email"].s)
                \/ ~Contains(<<".">>, AfterLastAt(lead.d["email"].s))
        THEN StepReturn(FALSE, Rat(2, 10))
        ELSE StepReturn(TRUE, One)

\* verify_source_1 and verify_source_2: mocks that always verify
verify_source_1 == StepReturn(TRUE, Rat(90, 100))
verify_source_2 == StepReturn(TRUE, Rat(95, 100))

RECURSIVE SumConfidence(_)
SumConfidence(results) ==
    IF results = <<>> THEN Zero
    ELSE RatAdd(Head(results).confidence, SumConfidence(Tail(results)))

\* step2_parallel_verification over the gathered results of the sources
step2_parallel_verification(results) ==
    LET successful_verifications ==
            Cardinality({k \in DOMAIN results : results[k].ok})
    IN  IF successful_verifications = 0 THEN StepReturn(FALSE, Zero)
        ELSE StepReturn(TRUE, RatMul(SumConfidence(results), Rat(1, Len(results))))

DIGITS == <<"0", "1", "2", "3", "4", "5", "6", "7", "8", "9">>

IsDigit(c) == \E d \in DOMAIN DIGITS : DIGITS[d] = c

DigitValue(c) == (CHOOSE d \in DOMAIN DIGITS : DIGITS[d] = c) - 1

\* 10 ** n
RECURSIVE Pow10(_)
Pow10(n) == IF n = 0 THEN 1 ELSE 10 * Pow10(n - 1)

\* the number a string of digits denotes
RECURSIVE DigitsValue(_)
DigitsValue(s) ==
    IF s = <<>> THEN 0
    ELSE 10 * DigitsValue(SubSeq(s, 1, Len(s) - 1)) + DigitValue(s[Len(s)])

\* float(text) for the texts digits "." digits, blanks around them allowed;
\* any other text raises ValueError
ParseFloat(text) ==
    LET s == Strip(text)
        dots == {i \in DOMAIN s : s[i] = "."}
    IN  IF /\ Cardinality(dots) = 1
           /\ \A i \in DOMAIN s \ dots : IsDigit(s[i])
           /\ Len(s) > 1
        THEN LET dot == CHOOSE i \in dots : TRUE
                 whole == SubSeq(s, 1, dot - 1)
                 frac == SubSeq(s, dot + 1, Len(s))
             IN  Returns(RatAdd(Rat(DigitsValue(whole), 1),
                                Rat(DigitsValue(frac), Pow10(Len(frac)))))
        ELSE Raises("ValueError")

\* step3_intelligent_validation, given what the generation service brings:
\* the whole body is under "except Exception"
step3_intelligent_validation(response) ==
    LET parsed == IF response.exc # "None" THEN Raises(response.exc)
                  ELSE ParseFloat(response.text)
    IN  IF parsed.kind = "raise"
        THEN IF Catches({"Exception"}, parsed.exc)
             THEN Returns(StepReturn(FALSE, Zero))
             ELSE Raises(parsed.exc)
        ELSE Returns(StepReturn(RatLeq(Rat(7, 10), parsed.value), parsed.value))

\* the leads TripleValidation.validate is run on
PersonId == PyStr(<<"1", "2", "3", "4", "5">>)
PersonName == PyStr(<<"J", "o", "h", "n">>)
PersonFields == ("id" :> PersonId) @@ ("name" :> PersonName)

Persons ==
    {PyDict(PersonFields @@ ("email" :> PyStr(<<"j", "@", "x", ".", "i", "o">>))),
     PyDict(PersonFields),
     PyDict(<<>>),
     PyDict(("id" :> PyInt(12345)) @@ ("name" :> PersonName)
            @@ ("email" :> PyStr(<<"j", "@", "x", ".", "i", "o">>))),
     PyDict(PersonFields @@ ("email" :> PyNone)),
     PyDict(PersonFields @@ ("email" :> PyStr(<<"j", "x", ".", "i", "o">>))),
     PyDict(PersonFields @@ ("email" :> PyStr(<<"j", ".", "d", "@", "x", "i", "o">>))),
     PyDict(PersonFields @@ ("email" :> PyStr(<<"a", "@", "b", ".", "c", "@", "d">>)))}

\* the tuple validate returns
ValidateReturn(ok, confidence, message) ==
    [kind |-> "return", ok |-> ok, confidence |-> confidence, summary |-> message]

\* validate(lead_data) is called
TVValidate(lead) ==
    /\ tv_pc = "idle"
    /\ iv_pc = "idle"
    /\ tv_pc' = "step1"
    /\ lead_data' = lead
    /\ UNCHANGED <<validator_vars, server_vars, iv_pc, iv_checks, iv_result,
                   tv_log, tv_steps, tv_response, tv_result>>

\* TVStep1 without the early return: step 2 follows a failed step 1
TVStep1_NoEarlyReturn ==
    /\ tv_pc = "step1"
    /\ tv_log' = Append(tv_log, 1)
    /\ tv_steps' = Append(tv_steps, step1_data_integrity(lead_data))
    /\ tv_pc' = "step2"
    /\ UNCHANGED <<validator_vars, server_vars, iv_pc, iv_checks, iv_result,
                   lead_data, tv_response, tv_result>>

\* step 1 and the test of its result
TVStep1 ==
    /\ tv_pc = "step1"
    /\ LET r == step1_data_integrity(lead_data)
       IN  /\ tv_log' = Append(tv_log, 1)
           /\ tv_steps' = Append(tv_steps, r)
           /\ IF ~r.ok
              THEN /\ tv_pc' = "returned"
                   /\ tv_result' = ValidateReturn(FALSE, r.confidence,
                                        "Step 1: Data Integrity Check Failed")
              ELSE /\ tv_pc' = "step2"
                   /\ UNCHANGED tv_result
    /\ UNCHANGED <<validator_vars, server_vars, iv_pc, iv_checks, iv_result,
                   lead_data, tv_response>>

\* step 2 (the two sources gathered) and the test of its result
TVStep2 ==
    /\ tv_pc = "step2"
    /\ LET r == step2_parallel_verification(<<verify_source_1, verify_source_2>>)
       IN  /\ tv_log' = Append(tv_log, 2)
           /\ tv_steps' = Append(tv_steps, r)
           /\ IF ~r.ok
              THEN /\ tv_pc' = "returned"
                   /\ tv_result' = ValidateReturn(FALSE, r.confidence,
                                        "Step 2: Parallel External Verification Failed")
              ELSE /\ tv_pc' = "step3"
                   /\ UNCHANGED tv_result
    /\ UNCHANGED <<validator_vars, server_vars, iv_pc, iv_checks, iv_result,
                   lead_data, tv_response>>

\* step 3, the test of its result, and the final return
TVStep3(response) ==
    /\ tv_pc = "step3"
    /\ tv_response' = response
    /\ LET call == step3_intelligent_validation(response)
       IN  IF call.kind = "raise"
           THEN /\ tv_pc' = "raised"
                /\ tv_log' = Append(tv_log, 3)
                /\ tv_result' = call
                /\ UNCHANGED tv_steps
           ELSE LET r == call.value
                    overall_confidence ==
                        RatMul(RatAdd(RatAdd(tv_steps[1].confidence,
                                             tv_steps[2].confidence),
                                      r.confidence),
                               Rat(1, 3))
                IN  /\ tv_pc' = "returned"
                    /\ tv_log' = Append(tv_log, 3)
                    /\ tv_steps' = Append(tv_steps, r)
                    /\ tv_result' =
                           IF ~r.ok
                           THEN ValidateReturn(FALSE, r.confidence,
                                    "Step 3: Intelligent Validation Failed")
                           ELSE ValidateReturn(TRUE, overall_confidence,
                                    "All validation steps passed")
    /\ UNCHANGED <<validator_vars, server_vars, iv_pc, iv_checks, iv_result,
                   lead_data>>

\* the validator variables while no batch is validated
ValidatorIdle ==
    /\ data_list = <<>>
    /\ gemini_api_key = TRUE
    /\ main = "idle"
    /\ entry = "None"
    /\ data_type = "None"
    /\ tasks = <<>>
    /\ running = 0
    /\ done_order = <<>>
    /\ batch_result = NoBatchResult
    /\ summary = NoSummary

\* a constructed IntelligenceValidator and a constructed TripleValidation,
\* before either validate is called
InitExternal == ValidatorIdle /\ ExternalIdle /\ ServerIdle

NextExternal ==
    \/ IVValidate
    \/ \E k \in 1..3, response \in HttpResponses : IVCheckExternal(k, response)
    \/ \E k \in 1..3, response \in GenerationResponses : IVCheckGoogleAi(k, response)
    \/ IVGatherReturn
    \/ \E k \in 1..3 : IVGatherRaise(k)
    \/ \E lead \in Persons : TVValidate(lead)
    \/ TVStep1
    \/ TVStep2
    \/ \E response \in GenerationResponses : TVStep3(response)

SpecExternal == InitExternal /\ [][NextExternal]_vars

(***************************************************************************)
(* The HTTP server (src/cloud_run_server.py): the POST /run handlers and   *)
(* the background threads they start.  Handlers and threads interleave at  *)
(* every step; pipeline_lock is held from the entry of a "with" block to   *)
(* its exit.                                                               *)
(***************************************************************************)
\* the POST /run requests the server receives
MaxRequests == 3

RequestIds == 1..MaxRequests

\* what AutonomousPipeline(config) / pipeline.run() can end with: a result,
\* or an exception (the import of the pipeline module included)
PipelineOutcomes == {"result", "exception"}

InitServer ==
    /\ ValidatorIdle
    /\ ExternalIdle
    /\ pipeline_status = [status |-> "idle", runs_completed |-> 0]
    /\ pipeline_lock = 0
    /\ requests = [r \in RequestIds |-> "unsent"]
    /\ threads = [r \in RequestIds |-> "none"]

\* run_pipeline: the test of the status, read without the lock; 409 when the
\* pipeline is seen running
RunPipelineCheck(r) ==
    /\ requests[r] = "unsent"
    /\ requests' = [requests EXCEPT
                      ![r] = IF pipeline_status.status = "running"
                             THEN "409" ELSE "starting"]
    /\ UNCHANGED <<validator_vars, external_vars, pipeline_status,
                   pipeline_lock, threads>>

\* run_pipeline: thread.start() and the 202 response
RunPipelineStart(r) ==
    /\ requests[r] = "starting"
    /\ requests' = [requests EXCEPT ![r] = "202"]
    /\ threads' = [threads EXCEPT ![r] = "start"]
    /\ UNCHANGED <<validator_vars, external_vars, pipeline_status, pipeline_lock>>

\* run_pipeline_async: "with pipeline_lock:" is entered
AcquireLock(th) ==
    /\ threads[th] = "start"
    /\ pipeline_lock = 0
    /\ pipeline_lock' = th
    /\ threads' = [threads EXCEPT ![th] = "locked"]
    /\ UNCHANGED <<validator_vars, external_vars, pipeline_status, requests>>

\* CheckAndSetRunning without the test of the status
CheckAndSetRunning_Unchecked(th) ==
    /\ threads[th] = "locked"
    /\ pipeline_lock = th
    /\ pipeline_lock' = 0
    /\ pipeline_status' = [pipeline_status EXCEPT !.status = "running"]
    /\ threads' = [threads EXCEPT ![th] = "pipeline"]
    /\ UNCHANGED <<validator_vars, external_vars, requests>>

\* the body of the first "with" block and its exit: return when the status
\* is running, else set it to running
CheckAndSetRunning(th) ==
    /\ threads[th] = "locked"
    /\ pipeline_lock = th
    /\ pipeline_lock' = 0
    /\ IF pipeline_status.status = "running"
       THEN /\ threads' = [threads EXCEPT ![th] = "skipped"]
            /\ UNCHANGED pipeline_status
       ELSE /\ pipeline_status' = [pipeline_status EXCEPT !.status = "running"]
            /\ threads' = [threads EXCEPT ![th] = "pipeline"]
    /\ UNCHANGED <<validator_vars, external_vars, requests>>

\* the pipeline is built and run, outside the lock
RunPipeline(th, outcome) ==
    /\ threads[th] = "pipeline"
    /\ threads' = [threads EXCEPT
                     ![th] = IF outcome = "result" THEN "completing" ELSE "failing"]
    /\ UNCHANGED <<validator_vars, external_vars, pipeline_status,
                   pipeline_lock, requests>>

\* the "with" block after the run: status completed, runs_completed += 1
RecordCompleted(th) ==
    /\ threads[th] = "completing"
    /\ pipeline_lock = 0
    /\ pipeline_status' = [status |-> "completed",
                           runs_completed |-> pipeline_status.runs_completed + 1]
    /\ threads' = [threads EXCEPT ![th] = "done"]
    /\ UNCHANGED <<validator_vars, external_vars, pipeline_lock, requests>>

\* the "with" block of the except clause: status error
RecordError(th) ==
    /\ threads[th] = "failing"
    /\ pipeline_lock = 0
    /\ pipeline_status' = [pipeline_status EXCEPT !.status = "error"]
    /\ threads' = [threads EXCEPT ![th] = "done"]
    /\ UNCHANGED <<validator_vars, external_vars, pipeline_lock, requests>>

NextServer ==
    \/ \E r \in RequestIds : RunPipelineCheck(r)
    \/ \E r \in RequestIds : RunPipelineStart(r)
    \/ \E th \in RequestIds : AcquireLock(th)
    \/ \E th \in RequestIds : CheckAndSetRunning(th)
    \/ \E th \in RequestIds, outcome \in PipelineOutcomes : RunPipeline(th, outcome)
    \/ \E th \in RequestIds : RecordCompleted(th)
    \/ \E th \in RequestIds : RecordError(th)

SpecServer == InitServer /\ [][NextServer]_vars

(***************************************************************************)
(* Vocabulary of the properties.                                           *)
(***************************************************************************)
\* the validate calls that returned a report
Returned == {i \in DOMAIN tasks : tasks[i].pc = "done"}

\* the validate calls an exception left
Failed == {i \in DOMAIN tasks : tasks[i].pc = "raised"}

StepResults(report) ==
    <<report.step1_result, report.step2_result, report.step3_result>>

AnyStage(report, status) ==
    \E k \in 1..3 : StepResults(report)[k].status = status

AllStages(report, status) ==
    \A k \in 1..3 : StepResults(report)[k].status = status

\* the batch call is over: its caller has a list of reports or an exception
BatchOver == main \in {"returned", "raised", "summarised"}

\* the validations gather has put on the event loop and that have not ended
InFlight ==
    Cardinality({i \in DOMAIN tasks : tasks[i].pc \notin {"done", "raised"}})

\* a cap that does not grow with the batch lies below the largest batch
InFlightCap == MaxBatch - 1

\* the record lacks a required field, or has it null or an empty string
LacksRequired(item, required) ==
    /\ item.kind = "dict"
    /\ \E k \in DOMAIN required :
          \/ required[k] \notin DOMAIN item.d
          \/ item.d[required[k]] = PyNone
          \/ item.d[required[k]] = PyStr(<<>>)

(***************************************************************************)
(* C1: a finalized report with three stage results has overall status      *)
(* FAILED exactly when at least one of its stages is FAILED, whatever its  *)
(* overall score.                                                          *)
(***************************************************************************)
C1_FailedIffAnyStageFailed ==
    \A i \in Returned :
        (tasks[i].report.overall_status = FAILED) <=> AnyStage(tasks[i].report, FAILED)

\* a report that is FAILED through one stage although its score is above 0.8
C1_Witness ==
    \E i \in Returned :
        /\ AnyStage(tasks[i].report, FAILED)
        /\ tasks[i].report.overall_status = FAILED
        /\ RatLt(Rat(8, 10), tasks[i].report.overall_score)

(***************************************************************************)
(* C2: a report returned by validate has overall status PASSED exactly     *)
(* when step 1, step 2 and step 3 all have status PASSED.                  *)
(***************************************************************************)
C2_PassedIffAllStagesPassed ==
    \A i \in Returned :
        (tasks[i].report.overall_status = PASSED) <=> AllStages(tasks[i].report, PASSED)

\* a PASSED report, all of whose stages are PASSED
C2_Witness ==
    \E i \in Returned :
        /\ tasks[i].report.overall_status = PASSED
        /\ AllStages(tasks[i].report, PASSED)

\* the other side: a WARNING stage and no FAILED stage give WARNING
C2_WitnessWarning ==
    \E i \in Returned :
        /\ AnyStage(tasks[i].report, WARNING)
        /\ ~AnyStage(tasks[i].report, FAILED)
        /\ tasks[i].report.overall_status = WARNING

(***************************************************************************)
(* C3: a report returned by validate has                                   *)
(*   overall_score      = 0.40*score1 + 0.35*score2 + 0.25*score3          *)
(*   overall_confidence = 0.40*conf1  + 0.35*conf2  + 0.25*conf3.          *)
(***************************************************************************)
Weighted(a, b, c) ==
    RatAdd(RatMul(Rat(2, 5), a), RatAdd(RatMul(Rat(7, 20), b), RatMul(Rat(1, 4), c)))

C3_WeightedScore ==
    \A i \in Returned :
        LET r == tasks[i].report
        IN  /\ r.overall_score =
                 Weighted(r.step1_result.score, r.step2_result.score,
                          r.step3_result.score)
            /\ r.overall_confidence =
                 Weighted(r.step1_result.confidence, r.step2_result.confidence,
                          r.step3_result.confidence)

\* a report whose three stage scores are pairwise different
C3_Witness ==
    \E i \in Returned :
        LET r == tasks[i].report
        IN  /\ r.step1_result.score # r.step2_result.score
            /\ r.step2_result.score # r.step3_result.score
            /\ r.step1_result.score # r.step3_result.score
            /\ r.overall_score # Zero

(***************************************************************************)
(* C4: when at least one record of the input lacks a required field of the *)
(* applicable schema, or has it null or empty, step 1 returns status       *)
(* FAILED and a score below 1.0.                                           *)
(***************************************************************************)
C4_MissingRequiredFails ==
    \A i \in DOMAIN tasks :
        LET items == ItemsOf(data_list[i])
            r == tasks[i].report
        IN  (/\ tasks[i].log # <<>>
             /\ \E k \in DOMAIN items :
                    LacksRequired(items[k], SchemaRequired(data_type)))
            => /\ r.step1_result.status = FAILED
               /\ RatLt(r.step1_result.score, One)

\* step 1 ran on a list in which one record is complete and another has a
\* required field that is null or an empty string
C4_Witness ==
    \E i \in DOMAIN tasks :
        LET items == ItemsOf(data_list[i])
        IN  /\ tasks[i].log # <<>>
            /\ Len(items) > 1
            /\ \E k \in DOMAIN items :
                   /\ items[k].kind = "dict"
                   /\ \E f \in DOMAIN items[k].d : items[k].d[f] = PyNone
            /\ tasks[i].report.step1_result.score = Rat(1, 2)

(***************************************************************************)
(* C5: for every input list of N records the batch result has exactly N    *)
(* reports, and reports[i] is the report of validating input[i], whatever  *)
(* the order in which the validations finish.                              *)
(***************************************************************************)
C5_BatchResultInInputOrder ==
    BatchOver =>
        /\ batch_result.kind = "list"
        /\ Len(batch_result.reports) = Len(data_list)
        /\ \A i \in DOMAIN data_list : batch_result.reports[i] = tasks[i].report

\* what holds of C5 on the batches in which no validation raises: the list
\* gather returns is in input order also when the tasks finished in another
OrderPreservedWhenReturned ==
    main \in {"returned", "summarised"} =>
        /\ Len(batch_result.reports) = Len(data_list)
        /\ \A i \in DOMAIN data_list : batch_result.reports[i] = tasks[i].report

FinishedOutOfOrder ==
    /\ main = "returned"
    /\ Len(done_order) = MaxBatch
    /\ done_order[1] = MaxBatch

(***************************************************************************)
(* C6: in the summary of validate_all_intelligence, pass_rate is           *)
(* passed / total when total > 0 and 0 when the input list is empty.       *)
(***************************************************************************)
C6_PassRate ==
    main = "summarised" =>
        LET reports == batch_result.reports
            total == Len(reports)
            passed == Cardinality({i \in DOMAIN reports :
                                       reports[i].overall_status = PASSED})
        IN  /\ total > 0 =>
                  RatMul(summary.pass_rate, Rat(total, 1)) = Rat(passed, 1)
            /\ data_list = <<>> => summary.pass_rate = Zero

\* a summary in which some, but not all, reports are PASSED
C6_Witness ==
    /\ main = "summarised"
    /\ summary.passed > 0
    /\ summary.passed < summary.total
    /\ summary.pass_rate = Rat(summary.passed, summary.total)

\* the summary of the empty list
C6_WitnessEmpty ==
    /\ main = "summarised"
    /\ data_list = <<>>
    /\ summary.pass_rate = Zero

(***************************************************************************)
(* C7: when the validation of one record raises during a batch, the batch  *)
(* is not aborted: the exception does not reach the caller of              *)
(* validate_batch, every record gets its report, and the report of the     *)
(* failing record has a FAILED stage.                                      *)
(***************************************************************************)
C7_BatchIsolatesFailure ==
    (Failed # {} /\ BatchOver) =>
        /\ main # "raised"
        /\ batch_result.kind = "list"
        /\ Len(batch_result.reports) = Len(data_list)
        /\ \A i \in Failed : AnyStage(batch_result.reports[i], FAILED)

(***************************************************************************)
(* C8: whatever record is handed to validate, no exception of a stage      *)
(* leaves validate: every call ends with a report.                         *)
(***************************************************************************)
C8_ValidateNeverRaises ==
    \A i \in DOMAIN tasks : tasks[i].pc # "raised" /\ tasks[i].exc = "None"

(***************************************************************************)
(* C9: every run of validate executes stage 1, stage 2 and stage 3 once    *)
(* each, in that order, with no early exit, and the report it returns has  *)
(* a result for all three stages.                                          *)
(***************************************************************************)
C9_ThreeStagesInOrder ==
    \A i \in DOMAIN tasks :
        /\ tasks[i].pc \in {"done", "raised"} => tasks[i].log = <<1, 2, 3>>
        /\ tasks[i].pc = "done" =>
              \A k \in 1..3 : StepResults(tasks[i].report)[k] # NoResult

\* what holds of C9 on the runs no exception leaves: the stages run in the
\* order 1, 2, 3, also after a FAILED stage, and the report has all results
StagesInOrderWhenReturned ==
    \A i \in DOMAIN tasks :
        /\ \E n \in 0..3 : tasks[i].log = SubSeq(<<1, 2, 3>>, 1, n)
        /\ tasks[i].pc = "done" =>
              /\ tasks[i].log = <<1, 2, 3>>
              /\ \A k \in 1..3 : StepResults(tasks[i].report)[k] # NoResult

Stage3AfterFailedStage1 ==
    \E i \in Returned : tasks[i].report.step1_result.status = FAILED

(***************************************************************************)
(* C10: during a batch of N records the number of validations in flight    *)
(* never exceeds a fixed cap that does not grow with N.                    *)
(***************************************************************************)
C10_InFlightCapped == InFlight <= InFlightCap

C12_NoEngineWithoutKey ==
    ~gemini_api_key => main \in {"idle", "ValueError"}

(***************************************************************************)
(* C13: every step result has a status among PASSED, FAILED and WARNING,   *)
(* a score in [0,1] and a confidence in [0,1]; the overall score and the   *)
(* overall confidence of every report lie in [0,1].                        *)
(***************************************************************************)
InUnit(x) == RatLeq(Zero, x) /\ RatLeq(x, One)

\* the validate calls that have a report, returned or not
Started == {i \in DOMAIN tasks : tasks[i].pc # "scheduled"}

C13_ResultsInRange ==
    \A i \in Started :
        /\ \A k \in 1..3 :
              LET r == StepResults(tasks[i].report)[k]
              IN  r # NoResult =>
                      /\ r.status \in {PASSED, FAILED, WARNING}
                      /\ InUnit(r.score)
                      /\ InUnit(r.confidence)
        /\ InUnit(tasks[i].report.overall_score)
        /\ InUnit(tasks[i].report.overall_confidence)

\* a returned report whose stage 1 had more than ten errors, so that
\* 1.0 - 0.1 * errors is negative before it is clamped
C13_Witness ==
    \E i \in Returned :
        /\ Len(tasks[i].report.step1_result.errors) > 10
        /\ tasks[i].report.step1_result.confidence = Zero
        /\ InUnit(tasks[i].report.overall_confidence)

(***************************************************************************)
(* C14: a report is PENDING, with no end time, from its creation until its *)
(* three stage results are set; the overall status is computed once, after *)
(* stage 3, and a returned report has a status among PASSED, FAILED and    *)
(* WARNING and an end time, and does not change any more.                  *)
(***************************************************************************)
C14_PendingUntilFinalized ==
    \A i \in Started :
        LET r == tasks[i].report
        IN  IF tasks[i].pc = "done"
            THEN /\ r.overall_status \in {PASSED, FAILED, WARNING}
                 /\ r.end_time_set
                 /\ \A k \in 1..3 : StepResults(r)[k] # NoResult
            ELSE /\ r.overall_status = PENDING
                 /\ ~r.end_time_set
                 /\ r.overall_score = Zero
                 /\ r.overall_confidence = Zero

C14_FinalizedOnce ==
    \A i \in DOMAIN tasks :
        tasks[i].pc = "done" => tasks'[i] = tasks[i]

C14_Lifecycle == [](C14_PendingUntilFinalized) /\ [][C14_FinalizedOnce]_vars

\* one report is returned and final while another has its three stage
\* results and is still PENDING
C14_Witness ==
    /\ \E i \in Returned : tasks[i].report.overall_status = FAILED
    /\ \E i \in Started :
          /\ tasks[i].pc = "calculate"
          /\ tasks[i].report.step3_result # NoResult
          /\ tasks[i].report.overall_status = PENDING

(***************************************************************************)
(* Vocabulary of the stage 1 properties.                                   *)
(***************************************************************************)
\* the validate calls whose stage 1 has run
Stage1Ran == {i \in DOMAIN tasks : tasks[i].log # <<>>}

\* an item without error: a mapping that has every required field, neither
\* null nor an empty string
Clean(item, required) == item.kind = "dict" /\ ~LacksRequired(item, required)

\* the error messages an item is to get: one for a non-mapping, else one
\* for each required field that is missing, null or an empty string
ExpectedErrors(item, required) ==
    IF item.kind # "dict" THEN 1
    ELSE Cardinality({k \in DOMAIN required :
             \/ required[k] \notin DOMAIN item.d
             \/ item.d[required[k]] = PyNone
             \/ item.d[required[k]] = PyStr(<<>>)})

RECURSIVE SumInts(_)
SumInts(ns) == IF ns = <<>> THEN 0 ELSE Head(ns) + SumInts(Tail(ns))

(***************************************************************************)
(* C15: stage 1 is binary: its status is PASSED exactly when no item       *)
(* produced an error, and FAILED otherwise, never WARNING.                 *)
(***************************************************************************)
C15_Stage1Binary ==
    \A i \in Stage1Ran :
        LET items == ItemsOf(data_list[i])
            r == tasks[i].report.step1_result
        IN  /\ r.status \in {PASSED, FAILED}
            /\ (r.status = PASSED) <=> (r.errors = <<>>)
            /\ (r.status = PASSED) <=>
                  \A k \in DOMAIN items : Clean(items[k], SchemaRequired(data_type))

\* stage 1 PASSED on a list of several records while stage 2 of the same
\* report is not PASSED
C15_Witness ==
    \E i \in Returned :
        /\ Len(ItemsOf(data_list[i])) > 1
        /\ tasks[i].report.step1_result.status = PASSED
        /\ tasks[i].report.step2_result.status = WARNING

(***************************************************************************)
(* C16: the stage 1 score is validatedItems / totalItems, totalItems the   *)
(* number of items (1 for a single record), validatedItems the number of   *)
(* items without error; a non-mapping item is one item with one error.     *)
(***************************************************************************)
C16_Stage1Score ==
    \A i \in Stage1Ran :
        LET items == ItemsOf(data_list[i])
            r == tasks[i].report.step1_result
            total == IF data_list[i].kind = "list" THEN Len(data_list[i].elems) ELSE 1
            validated == Cardinality({k \in DOMAIN items :
                             Clean(items[k], SchemaRequired(data_type))})
        IN  /\ r.details.total_items = total
            /\ r.details.validated_items = validated
            /\ total > 0 => r.score = Rat(validated, total)
            /\ \A k \in DOMAIN items :
                  items[k].kind # "dict" =>
                      Cardinality({e \in DOMAIN r.errors :
                                       r.errors[e].path = k - 1}) = 1

\* a list of a complete record and a record with several errors: score 1/2
C16_Witness ==
    \E i \in Stage1Ran :
        /\ Len(ItemsOf(data_list[i])) = 2
        /\ Len(tasks[i].report.step1_result.errors) > 1
        /\ tasks[i].report.step1_result.score = Rat(1, 2)

\* a list with a non-mapping item
C16_WitnessNonMapping ==
    \E i \in Stage1Ran :
        /\ \E k \in DOMAIN ItemsOf(data_list[i]) :
               ItemsOf(data_list[i])[k].kind # "dict"
        /\ tasks[i].report.step1_result.score = Rat(1, 2)

(***************************************************************************)
(* C17: the stage 1 confidence is 1.0 - 0.1 * errorCount clamped to [0,1], *)
(* errorCount the number of error messages over all items; with 10 or more *)
(* errors it is 0.                                                         *)
(***************************************************************************)
C17_Stage1Confidence ==
    \A i \in Stage1Ran :
        LET items == ItemsOf(data_list[i])
            r == tasks[i].report.step1_result
            errorCount == SumInts([k \in DOMAIN items |->
                              ExpectedErrors(items[k], SchemaRequired(data_type))])
        IN  /\ Len(r.errors) = errorCount
            /\ r.confidence =
                  IF errorCount >= 10 THEN Zero ELSE Rat(10 - errorCount, 10)

\* exactly ten errors over four items: the confidence is 0
C17_Witness ==
    \E i \in Stage1Ran :
        /\ Len(ItemsOf(data_list[i])) = 4
        /\ Len(tasks[i].report.step1_result.errors) = 10
        /\ tasks[i].report.step1_result.confidence = Zero

(***************************************************************************)
(* Vocabulary of the stage 2 properties.                                   *)
(***************************************************************************)
\* the validate calls whose stage 2 returned a result
Stage2Ran == {i \in Started : tasks[i].report.step2_result # NoResult}

\* the identifier is acceptable: no id field, or an id that is a string of
\* 1 to 256 characters
IdAcceptable(item) ==
    \/ "id" \notin DOMAIN item.d
    \/ /\ item.d["id"].t = "str"
       /\ Len(item.d["id"].s) >= 1
       /\ Len(item.d["id"].s) <= MaxIdLen

\* the id field is there and is a string of 1 to 256 characters
HasValidId(item) == "id" \in DOMAIN item.d /\ IdAcceptable(item)

\* price and estimated_value are both present and numeric
BothNumeric(item) ==
    /\ "price" \in DOMAIN item.d
    /\ "estimated_value" \in DOMAIN item.d
    /\ item.d["price"].t = "int"
    /\ item.d["estimated_value"].t = "int"

\* price / estimated_value is a number of the band [0.1, 10]
RatioInBand(item) ==
    LET p == item.d["price"].n
        e == item.d["estimated_value"].n
    IN  /\ e # 0
        /\ RatLeq(Rat(1, 10), Rat(p, e))
        /\ RatLeq(Rat(p, e), Rat(10, 1))

\* the numeric check as stated: the band where both are numeric, else pass
NumericCheckPasses(item) == BothNumeric(item) => RatioInBand(item)

(***************************************************************************)
(* C18: in stage 2 the identifier check of a record is a match exactly     *)
(* when the record has no id field, or has an id that is non-empty and at  *)
(* most 256 characters long; a record without id is not a mismatch.        *)
(* Stated on the inputs whose records have no price, so that the other     *)
(* check of each record is a match.                                        *)
(***************************************************************************)
C18_IdCheckMatches ==
    \A i \in Stage2Ran :
        LET items == ItemsOf(data_list[i])
            r == tasks[i].report.step2_result
        IN  (\A k \in DOMAIN items :
                 items[k].kind = "dict" /\ "price" \notin DOMAIN items[k].d)
            => /\ r.details.matches =
                     Len(items) + Cardinality({k \in DOMAIN items :
                                                   IdAcceptable(items[k])})
               /\ r.details.mismatches =
                     Cardinality({k \in DOMAIN items : ~IdAcceptable(items[k])})

\* what holds of C18: the identifier check is a mismatch exactly when the
\* record has no id that is a string of 1 to 256 characters, so also when
\* it has no id field
IdCheckAsCoded ==
    \A i \in Stage2Ran :
        LET items == ItemsOf(data_list[i])
            r == tasks[i].report.step2_result
        IN  (\A k \in DOMAIN items :
                 items[k].kind = "dict" /\ "price" \notin DOMAIN items[k].d)
            => r.details.mismatches =
                   Cardinality({k \in DOMAIN items : ~HasValidId(items[k])})

(***************************************************************************)
(* C19: in stage 2 a record in which price and estimated_value are both    *)
(* present and numeric, 0 and negative numbers included, passes the        *)
(* numeric check exactly when price / estimated_value lies in [0.1, 10]; a *)
(* record lacking either field passes.  Stated on the inputs whose records *)
(* have a valid id, so that the other check of each record is a match.     *)
(***************************************************************************)
C19_NumericCheck ==
    \A i \in Stage2Ran :
        LET items == ItemsOf(data_list[i])
            r == tasks[i].report.step2_result
        IN  (\A k \in DOMAIN items :
                 items[k].kind = "dict" /\ HasValidId(items[k]))
            => r.details.mismatches =
                   Cardinality({k \in DOMAIN items : ~NumericCheckPasses(items[k])})

\* what holds of C19: the statement for the records in which neither
\* number is 0 (negative numbers included)
NumericCheckWhenNonZero ==
    \A i \in Stage2Ran :
        LET items == ItemsOf(data_list[i])
            r == tasks[i].report.step2_result
        IN  (\A k \in DOMAIN items :
                 /\ items[k].kind = "dict"
                 /\ HasValidId(items[k])
                 /\ BothNumeric(items[k]) =>
                        /\ items[k].d["price"].n # 0
                        /\ items[k].d["estimated_value"].n # 0)
            => r.details.mismatches =
                   Cardinality({k \in DOMAIN items : ~NumericCheckPasses(items[k])})

C20_WitnessOutOfBand ==
    \E i \in Stage2Ran :
        /\ data_list[i] = LeadOutOfBand
        /\ tasks[i].report.step2_result.score = Rat(1, 2)
        /\ tasks[i].report.step2_result.status = FAILED

(***************************************************************************)
(* C21: in stage 2 every record of the input adds two units to the tally,  *)
(* one for the id check and one for the numeric check: matches +           *)
(* mismatches = 2 * (number of input records), and score = confidence =    *)
(* matches / (matches + mismatches) where that quotient is defined.        *)
(***************************************************************************)
C21_TwoUnitsPerRecord ==
    \A i \in Stage2Ran :
        LET items == ItemsOf(data_list[i])
            r == tasks[i].report.step2_result
            total == r.details.matches + r.details.mismatches
        IN  /\ total = 2 * Len(items)
            /\ r.details.total_checks = total
            /\ total > 0 => /\ r.score = Rat(r.details.matches, total)
                            /\ r.confidence = r.score

\* what holds of C21: the items that are mappings add two units each, the
\* other items add none; with an empty tally the score is 1.0
TallyOverMappings ==
    \A i \in Stage2Ran :
        LET items == ItemsOf(data_list[i])
            r == tasks[i].report.step2_result
            total == r.details.matches + r.details.mismatches
        IN  /\ total = 2 * Cardinality({k \in DOMAIN items : items[k].kind = "dict"})
            /\ r.details.total_checks = total
            /\ r.score = IF total > 0 THEN Rat(r.details.matches, total) ELSE One
            /\ r.confidence = r.score

\* a list with an item that is not a mapping went through stage 2
TallySkipsNonMapping ==
    \E i \in Stage2Ran :
        /\ Len(ItemsOf(data_list[i])) = 2
        /\ tasks[i].report.step2_result.details.total_checks = 2

(***************************************************************************)
(* Vocabulary of the stage 3 properties.                                   *)
(***************************************************************************)
\* the validate calls whose stage 3 returned a result
Stage3Ran == {i \in Started : tasks[i].report.step3_result # NoResult}

\* the message is one of the errors of the result
HasError(r, msg) == \E k \in DOMAIN r.errors : r.errors[k] = msg

(***************************************************************************)
(* C22: without the API key stage 3 does not raise: every validate call    *)
(* that ran stage 3 has a result, whose errors name the missing key and    *)
(* whose score is strictly below the score of the same input with the key. *)
(* The two scores are compared where stage 3 has just returned; the result *)
(* is not touched afterwards.                                              *)
(***************************************************************************)
C22_MissingKeyDegrades ==
    /\ \A i \in DOMAIN tasks :
           (tasks[i].log # <<>> /\ tasks[i].log[Len(tasks[i].log)] = 3)
               => i \in Stage3Ran /\ tasks[i].pc # "raised"
    /\ ~gemini_api_key =>
           /\ \A i \in Stage3Ran :
                  HasError(tasks[i].report.step3_result, "API key not configured")
           /\ (running # 0 /\ tasks[running].pc = "calculate") =>
                  RatLt(tasks[running].report.step3_result.score,
                        ExternalVerifier_validate(data_list[running], TRUE).score)

\* a record without placeholder content, validated without the key: the
\* only error is the missing key and the score is 0.5 instead of 1.0
C22_Witness ==
    /\ ~gemini_api_key
    /\ \E i \in Stage3Ran :
           /\ tasks[i].report.step3_result.errors = <<"API key not configured">>
           /\ tasks[i].report.step3_result.score = Rat(1, 2)
           /\ ExternalVerifier_validate(data_list[i], TRUE).score = One

\* the strings a value holds, at any depth
StringsOf(v) == IF v.t \in {"str", "list"} THEN {v.s} ELSE {}

\* the string contains one of the placeholder markers, in any case
HasMarker(s) == \E x \in PlaceholderMarkers : Contains(x, Lower(s))

\* a string value anywhere in the record contains a marker
MarkerAnywhere(item) ==
    \E key \in DOMAIN item.d : \E s \in StringsOf(item.d[key]) : HasMarker(s)

\* a value of the record that is itself a string contains a marker
MarkerAtTopLevel(item) ==
    \E key \in DOMAIN item.d : item.d[key].t = "str" /\ HasMarker(item.d[key].s)

\* the content-plausibility check of the result passed
PatternsPassed(r) == ~HasError(r, "Only items valid")

\* the inputs of the content scan that are records: a record, or a list of
\* one or more records
AllRecords(data) ==
    /\ ItemsOf(data) # <<>>
    /\ \A k \in DOMAIN ItemsOf(data) : ItemsOf(data)[k].kind = "dict"

(***************************************************************************)
(* C23: in stage 3 a record counts as invalid exactly when a string value  *)
(* anywhere in it contains, in any case, one of the placeholder markers;   *)
(* the content-plausibility check passes exactly when valid / total >=     *)
(* 0.9; a single record with a marker has a stage 3 score below 1.0.       *)
(***************************************************************************)
C23_PlaceholderScan ==
    \A i \in Stage3Ran :
        LET items == ItemsOf(data_list[i])
            r == tasks[i].report.step3_result
            valid == Cardinality({k \in DOMAIN items : ~MarkerAnywhere(items[k])})
        IN  AllRecords(data_list[i])
            => /\ PatternsPassed(r) <=> RatLeq(Rat(9, 10), Rat(valid, Len(items)))
               /\ (Len(items) = 1 /\ MarkerAnywhere(items[1]))
                      => RatLt(r.score, One)

\* what holds of C23: the statement for the string values that are values
\* of the record itself, not for the strings inside a nested value
PlaceholderScanTopLevel ==
    \A i \in Stage3Ran :
        LET items == ItemsOf(data_list[i])
            r == tasks[i].report.step3_result
            valid == Cardinality({k \in DOMAIN items : ~MarkerAtTopLevel(items[k])})
        IN  AllRecords(data_list[i])
            => /\ PatternsPassed(r) <=> RatLeq(Rat(9, 10), Rat(valid, Len(items)))
               /\ (Len(items) = 1 /\ MarkerAtTopLevel(items[1]))
                      => RatLt(r.score, One)

\* a record whose placeholder text sits in a nested value got the full
\* stage 3 score
NestedPlaceholderPasses ==
    \E i \in Stage3Ran :
        /\ data_list[i] = LeadNestedPlaceholder
        /\ tasks[i].report.step3_result.score = One

\* the boundary of the ratio: one record with a marker among ten passes the
\* check, and a marker inside a longer word in capitals is found
PlaceholderBoundary ==
    \E i \in Stage3Ran :
        /\ Len(ItemsOf(data_list[i])) = 10
        /\ PatternsPassed(tasks[i].report.step3_result)
        /\ MarkerAtTopLevel(ItemsOf(data_list[i])[1])

(***************************************************************************)
(* C24: the stage 3 score is the number of passed checks over the two      *)
(* checks (credential presence, content plausibility), its confidence is   *)
(* score * 0.9, and its status is PASSED when both pass, WARNING when      *)
(* exactly one passes (score 0.5) and FAILED when none passes.             *)
(***************************************************************************)
C24_Stage3Score ==
    \A i \in Stage3Ran :
        LET r == tasks[i].report.step3_result
            checks == <<gemini_api_key, PatternsPassed(r)>>
            checksPassed == Cardinality({k \in DOMAIN checks : checks[k]})
        IN  /\ r.details.total = 2
            /\ r.details.verified = checksPassed
            /\ Len(r.errors) = 2 - checksPassed
            /\ r.score = Rat(checksPassed, 2)
            /\ r.confidence = RatMul(r.score, Rat(9, 10))
            /\ r.status = CASE checksPassed = 2 -> PASSED
                            [] checksPassed = 1 -> WARNING
                            [] checksPassed = 0 -> FAILED

\* exactly one check passed: score 0.5, confidence 0.45, WARNING
C24_Witness ==
    \E i \in Stage3Ran :
        /\ tasks[i].report.step3_result.details.verified = 1
        /\ tasks[i].report.step3_result.score = Rat(1, 2)
        /\ tasks[i].report.step3_result.confidence = Rat(45, 100)
        /\ tasks[i].report.step3_result.status = WARNING

\* no check passed: no key and placeholder content
C24_WitnessFailed ==
    \E i \in Stage3Ran :
        /\ tasks[i].report.step3_result.details.verified = 0
        /\ tasks[i].report.step3_result.score = Zero
        /\ tasks[i].report.step3_result.status = FAILED

\* both checks passed
C24_WitnessPassed ==
    \E i \in Stage3Ran :
        /\ tasks[i].report.step3_result.details.verified = 2
        /\ tasks[i].report.step3_result.confidence = Rat(9, 10)
        /\ tasks[i].report.step3_result.status = PASSED

(***************************************************************************)
(* Vocabulary of the external-call properties.                             *)
(***************************************************************************)
\* the checks of IntelligenceValidator.validate that ran to their end
FinishedChecks == {k \in DOMAIN iv_checks : iv_checks[k].pc # "pending"}

\* the exchange failed: network failure, timeout, non-success response or
\* malformed body
ExchangeFailed(response) == response.exc # "None"

\* the body is valid JSON of an unexpected shape: not an object
UnexpectedShape(response) ==
    response.exc = "None" /\ response.payload.kind # "dict"

\* step 3 of TripleValidation was invoked
Step3Invoked == tv_log # <<>> /\ tv_log[Len(tv_log)] = 3

(***************************************************************************)
(* C25: whatever an external check brings (network failure, timeout,       *)
(* non-success response, malformed or unexpectedly shaped body, failure of *)
(* the generation service), the check yields a failed verification and the *)
(* enclosing validation returns normally: no exception reaches the caller  *)
(* of IntelligenceValidator.validate or of step3_intelligent_validation.   *)
(***************************************************************************)
C25_ExternalFailuresContained ==
    /\ \A k \in FinishedChecks :
           LET c == iv_checks[k]
           IN  /\ (c.kind = "external_source"
                      /\ (ExchangeFailed(c.response) \/ UnexpectedShape(c.response)))
                     => c.outcome = Returns(FALSE)
               /\ (c.kind = "google_ai" /\ ExchangeFailed(c.response))
                     => c.outcome = Returns(FALSE)
    /\ iv_pc # "raised"
    /\ Step3Invoked =>
           /\ tv_pc = "returned"
           /\ ExchangeFailed(tv_response) => tv_steps[3] = StepReturn(FALSE, Zero)

\* what holds of C25: the statement without the bodies of unexpected shape;
\* the generation-service calls of both classes contain every failure
ExchangeFailuresContained ==
    /\ \A k \in FinishedChecks :
           LET c == iv_checks[k]
           IN  ExchangeFailed(c.response) => c.outcome = Returns(FALSE)
    /\ iv_pc = "raised" =>
           \E k \in FinishedChecks :
               /\ iv_checks[k].kind = "external_source"
               /\ UnexpectedShape(iv_checks[k].response)
               /\ iv_result = Raises("AttributeError")
    /\ Step3Invoked =>
           /\ tv_pc = "returned"
           /\ ExchangeFailed(tv_response) => tv_steps[3] = StepReturn(FALSE, Zero)

\* a source answered with a JSON array and validate raised AttributeError
AttributeErrorEscapes ==
    /\ iv_pc = "raised"
    /\ iv_result = Raises("AttributeError")
    /\ \E k \in FinishedChecks : iv_checks[k].response.payload = PyList(<<>>)

\* step 3 of TripleValidation contained a timeout of the service
Step3ContainsTimeout ==
    /\ Step3Invoked
    /\ tv_response.exc = "DeadlineExceeded"
    /\ tv_result = ValidateReturn(FALSE, Zero, "Step 3: Intelligent Validation Failed")

(***************************************************************************)
(* C26: in the summary validate_all_intelligence returns, total is the     *)
(* number of input records and passed + failed <= total; a report whose    *)
(* overall status is WARNING is counted in neither, so passed + failed =   *)
(* total exactly when no report is WARNING.                                *)
(***************************************************************************)
C26_SummaryCounts ==
    main = "summarised" =>
        LET warned == {i \in DOMAIN summary.reports :
                           summary.reports[i].overall_status = WARNING}
        IN  /\ summary.total = Len(data_list)
            /\ summary.passed + summary.failed <= summary.total
            /\ summary.passed + summary.failed = summary.total - Cardinality(warned)
            /\ (summary.passed + summary.failed = summary.total) <=> (warned = {})

\* a summary of two records, one WARNING and one FAILED: passed + failed is
\* 1 of 2
C26_Witness ==
    /\ main = "summarised"
    /\ summary.total = 2
    /\ summary.passed = 0
    /\ summary.failed = 1
    /\ \E i \in DOMAIN summary.reports : summary.reports[i].overall_status = WARNING

\* a summary without a WARNING report: passed + failed is the total
C26_WitnessNoWarning ==
    /\ main = "summarised"
    /\ summary.total = 2
    /\ summary.passed = 1
    /\ summary.failed = 1

(***************************************************************************)
(* C27: for each of the three stages and every input, the empty list       *)
(* included, a stage result with status PASSED has score 1.0.              *)
(***************************************************************************)
C27_PassedMeansFullScore ==
    \A i \in Started :
        \A k \in 1..3 :
            LET r == StepResults(tasks[i].report)[k]
            IN  (r # NoResult /\ r.status = PASSED) => r.score = One

\* what holds of C27: the statement for stages 2 and 3 on every input, and
\* for stage 1 on every input but the empty list
PassedMeansFullScoreNonEmpty ==
    \A i \in Started :
        \A k \in 1..3 :
            LET r == StepResults(tasks[i].report)[k]
            IN  (/\ r # NoResult
                 /\ r.status = PASSED
                 /\ (k = 1 => ItemsOf(data_list[i]) # <<>>))
                => r.score = One

\* stage 1 of the empty list: PASSED with score 0.0
EmptyListPassesWithZero ==
    \E i \in Stage1Ran :
        /\ data_list[i] = PyList(<<>>)
        /\ tasks[i].report.step1_result.status = PASSED
        /\ tasks[i].report.step1_result.score = Zero

(***************************************************************************)
(* Vocabulary of the server properties.                                    *)
(***************************************************************************)
\* the threads executing the pipeline: past the first "with" block with the
\* status set to running, and not yet through the block that resets it
InPipeline ==
    {th \in DOMAIN threads : threads[th] \in {"pipeline", "completing", "failing"}}

\* thread th enters the pipeline in this step
Enters(th) == threads[th] # "pipeline" /\ threads'[th] = "pipeline"

\* thread th returns in this step because it found the status running
Skips(th) == threads[th] # "skipped" /\ threads'[th] = "skipped"

(***************************************************************************)
(* C28: under any interleaving of POST /run handlers and background        *)
(* threads at most one pipeline execution is in progress; a thread enters  *)
(* the pipeline only by setting the status from a value other than running *)
(* to running while it holds pipeline_lock; a thread that finds the status *)
(* running returns without executing the pipeline and without changing     *)
(* the status.                                                             *)
(***************************************************************************)
C28_AtMostOnePipeline ==
    /\ Cardinality(InPipeline) <= 1
    /\ InPipeline # {} => pipeline_status.status = "running"
    /\ \A th \in DOMAIN threads : threads[th] = "locked" <=> pipeline_lock = th

C28_EntryRule ==
    \A th \in DOMAIN threads :
        /\ Enters(th) => /\ pipeline_lock = th
                         /\ pipeline_status.status # "running"
                         /\ pipeline_status'.status = "running"
        /\ Skips(th) => /\ pipeline_lock = th
                        /\ pipeline_status.status = "running"
                        /\ pipeline_status' = pipeline_status
        /\ threads[th] = "skipped" => threads'[th] = "skipped"

C28_SinglePipeline == [](C28_AtMostOnePipeline) /\ [][C28_EntryRule]_vars

\* two handlers both saw the status idle and started a thread: one thread
\* is in the pipeline, the other found the status running and returned
C28_Witness ==
    \E a, b \in DOMAIN threads :
        /\ threads[a] = "pipeline"
        /\ threads[b] = "skipped"
        /\ requests[a] = "202"
        /\ requests[b] = "202"

\* a run after a completed run: the status leaves running and is set again
C28_WitnessSecondRun ==
    /\ pipeline_status.runs_completed = 1
    /\ InPipeline # {}

(***************************************************************************)
(* C29: a validator constructed with a data type that is not in the schema *)
(* registry is constructed without failure and validates records against   *)
(* the required fields of the 'lead' schema (id, source_url, scraped_at),   *)
(* while the report and the stage 1 details carry the requested name.      *)
(***************************************************************************)
LeadRequired == <<"id", "source_url", "scraped_at">>

C29_UnknownTypeUsesLeadSchema ==
    (data_type # "None" /\ data_type \notin DOMAIN SCHEMAS) =>
        /\ main \in {"constructed", "gather", "returned", "raised"}
        /\ \A i \in Stage1Ran :
               LET items == ItemsOf(data_list[i])
                   r == tasks[i].report.step1_result
               IN  /\ tasks[i].report.data_type = data_type
                   /\ r.details.schema_type = data_type
                   /\ Len(r.errors) =
                          SumInts([k \in DOMAIN items |->
                                      ExpectedErrors(items[k], LeadRequired)])
                   /\ \A e \in DOMAIN r.errors :
                          r.errors[e].kind # "type" =>
                              \E f \in DOMAIN LeadRequired :
                                  r.errors[e].field = LeadRequired[f]
                   /\ r.status = PASSED <=>
                          \A k \in DOMAIN items : Clean(items[k], LeadRequired)

\* a record without source_url under an unknown data type: stage 1 fails on
\* the lead field source_url, and the report carries the unknown name
C29_Witness ==
    /\ data_type = "unknown"
    /\ \E i \in Stage1Ran :
           /\ data_list[i] = LeadNoUrl
           /\ tasks[i].report.data_type = "unknown"
           /\ tasks[i].report.step1_result.details.schema_type = "unknown"
           /\ tasks[i].report.step1_result.errors =
                  <<[path |-> 0, kind |-> "missing", field |-> "source_url"]>>

\* a record of another schema under an unknown data type fails on the lead
\* fields it does not have
C29_WitnessRepository ==
    /\ data_type = "unknown"
    /\ \E i \in Stage1Ran :
           /\ data_list[i] = GoodRepository
           /\ Len(tasks[i].report.step1_result.errors) = 3

(***************************************************************************)
(* C30: TripleValidation.validate runs its steps in the order 1, 2, 3 and  *)
(* stops at the first failing step: it returns True exactly when all three *)
(* steps succeeded, with the mean of the three step confidences; when step *)
(* k fails it returns False with the confidence of step k, and no later    *)
(* step is invoked.                                                        *)
(***************************************************************************)
C30_StepsInOrderEarlyStop ==
    /\ \E n \in 0..3 : tv_log = SubSeq(<<1, 2, 3>>, 1, n)
    /\ tv_pc # "raised"
    /\ tv_pc = "returned" =>
           LET k == Len(tv_steps)
           IN  /\ k >= 1
               /\ tv_log = SubSeq(<<1, 2, 3>>, 1, k)
               /\ \A j \in 1..(k - 1) : tv_steps[j].ok
               /\ tv_result.ok <=> (k = 3 /\ \A j \in 1..3 : tv_steps[j].ok)
               /\ tv_result.ok =>
                      tv_result.confidence =
                          RatMul(RatAdd(RatAdd(tv_steps[1].confidence,
                                               tv_steps[2].confidence),
                                        tv_steps[3].confidence), Rat(1, 3))
               /\ ~tv_result.ok =>
                      /\ ~tv_steps[k].ok
                      /\ tv_result.confidence = tv_steps[k].confidence

\* step 1 failed on the email format: False with confidence 0.2, and
\* neither step 2 nor step 3 was invoked
C30_Witness ==
    /\ tv_pc = "returned"
    /\ tv_log = <<1>>
    /\ tv_result = ValidateReturn(FALSE, Rat(2, 10),
                                  "Step 1: Data Integrity Check Failed")

\* all three steps succeeded: True with the mean of 1.0, 0.925 and 0.9
C30_WitnessAllPassed ==
    /\ tv_pc = "returned"
    /\ tv_log = <<1, 2, 3>>
    /\ tv_result = ValidateReturn(TRUE, Rat(113, 120), "All validation steps passed")

\* step 3 failed with the confidence 0.3 the service gave
C30_WitnessStep3Failed ==
    /\ tv_pc = "returned"
    /\ tv_log = <<1, 2, 3>>
    /\ tv_result = ValidateReturn(FALSE, Rat(3, 10),
                                  "Step 3: Intelligent Validation Failed")

=============================================================================
